---- MODULE Spec2Model ----
(***************************************************************************)
(* Model of horas-registro-civil: the GET /slots handler                   *)
(* (src/api/routers/slots.py), the Playwright client it drives             *)
(* (src/services/srcei/client.py) and the slot utilities                   *)
(* (src/services/srcei/recommender.py).                                    *)
(*                                                                         *)
(* Text is modelled as a sequence of one-character strings, so that        *)
(* splitting, padding, containment and lexicographic comparison are        *)
(* computed as Python and JavaScript compute them.                         *)
(***************************************************************************)
EXTENDS Integers, Sequences, FiniteSets, TLC

VARIABLES
    pc,         \* per request: the handler's position
    query,      \* per request: the query parameters and the credentials
    client,     \* per request: the SRCEIPlaywrightClient object's fields
    scraped,    \* per request: what the extraction script returned
    raw_slots,  \* per request: what get_slots_by_region returned
    pending,    \* per request: the return value or exception in flight
    response,   \* per request: what the caller received
    auth,       \* per request: how the last login() ended
    failed,     \* per request: the stage of get_slots_by_region that failed
    stages,     \* per request: the client methods entered and the sort, in
                \* order
    trace,      \* per request: the engine, browser and page calls made by
                \* the client method that ran last, in order
    clicked,    \* per request: the calls of the last select_procedure
                \* that clicked a control, in order
    ncalls,     \* per session: number of client methods called directly
    sortIn,     \* the list handed to sort_slots_by_datetime (pure function)
    sortOut,    \* its outcome
    evalIn,     \* the innerText of the cards of a page (pure function)
    evalOut,    \* what the extraction script returns for them
    parseIn,    \* a date text handed to parse_slot_date (pure function)
    parseOut    \* its outcome

\* The variables of the pure functions other than the sort.
pureVars == <<evalIn, evalOut, parseIn, parseOut>>

vars == <<pc, query, client, scraped, raw_slots, pending, response, auth,
          failed, stages, trace, ncalls, sortIn, sortOut, pureVars, clicked>>

----------------------------------------------------------------------------
(* Text helpers: Python str / JavaScript String operations.                *)

\* The characters of the model in ascending code point order.
CodeOrder ==
    <<"\t","\n"," ","+","-",".","/","0","1","2","3","4","5","6","7","8","9",
      ":","=","?","A","B","C","D","E","F","G","H","I","J","K","L","M","N",
      "O","P","Q","R","S","T","U","V","W","X","Y","Z","_","a","b","c","d",
      "e","f","g","h","i","j","k","l","m","n","o","p","q","r","s","t","u",
      "v","w","x","y","z","é","í","ó">>

Chars == {CodeOrder[i] : i \in 1..Len(CodeOrder)}

\* ord(c): the rank of c; comparison of ranks is comparison of code points.
Ord == [c \in Chars |-> CHOOSE i \in 1..Len(CodeOrder) : CodeOrder[i] = c]

Digits == {"0","1","2","3","4","5","6","7","8","9"}

DigitVal == [c \in Digits |-> Ord[c] - Ord["0"]]

Upper ==
    <<"A","B","C","D","E","F","G","H","I","J","K","L","M","N","O","P","Q",
      "R","S","T","U","V","W","X","Y","Z">>

Lower ==
    <<"a","b","c","d","e","f","g","h","i","j","k","l","m","n","o","p","q",
      "r","s","t","u","v","w","x","y","z">>

\* str.lower() / String.prototype.toLowerCase() on one character.
LowerChar ==
    [c \in Chars |->
        IF \E i \in 1..Len(Upper) : Upper[i] = c
        THEN Lower[CHOOSE i \in 1..Len(Upper) : Upper[i] = c]
        ELSE c]

ToLower(s) == [i \in 1..Len(s) |-> LowerChar[s[i]]]

\* Python `sub in s` / JavaScript s.includes(sub).
Contains(s, sub) ==
    \E i \in 0..(Len(s) - Len(sub)) :
        \A j \in 1..Len(sub) : s[i + j] = sub[j]

\* Python < on str: lexicographic by code point, a proper prefix is smaller.
RECURSIVE StrLt(_, _)
StrLt(a, b) ==
    IF b = <<>> THEN FALSE
    ELSE IF a = <<>> THEN TRUE
    ELSE IF a[1] = b[1] THEN StrLt(Tail(a), Tail(b))
    ELSE Ord[a[1]] < Ord[b[1]]

\* s.split(sep) for a one-character separator: always at least one part.
RECURSIVE SplitFrom(_, _, _)
SplitFrom(s, sep, cur) ==
    IF s = <<>> THEN <<cur>>
    ELSE IF s[1] = sep THEN <<cur>> \o SplitFrom(Tail(s), sep, <<>>)
    ELSE SplitFrom(Tail(s), sep, Append(cur, s[1]))

Split(s, sep) == SplitFrom(s, sep, <<>>)

Whitespace == {" ", "\t", "\n"}

RECURSIVE LStrip(_)
LStrip(s) ==
    IF s # <<>> /\ s[1] \in Whitespace THEN LStrip(Tail(s)) ELSE s

RECURSIVE RStrip(_)
RStrip(s) ==
    IF s # <<>> /\ s[Len(s)] \in Whitespace
    THEN RStrip(SubSeq(s, 1, Len(s) - 1))
    ELSE s

\* String.prototype.trim()
Trim(s) == RStrip(LStrip(s))

\* str.split() with no argument: the whitespace-separated words.
RECURSIVE WordsFrom(_, _)
WordsFrom(s, cur) ==
    IF s = <<>> THEN (IF cur = <<>> THEN <<>> ELSE <<cur>>)
    ELSE IF s[1] \in Whitespace
         THEN (IF cur = <<>> THEN <<>> ELSE <<cur>>) \o WordsFrom(Tail(s), <<>>)
         ELSE WordsFrom(Tail(s), Append(cur, s[1]))

Words(s) == WordsFrom(s, <<>>)

\* Faulty variant: no padding.
zfill2_none(s) == s

\* str.zfill(2): zeros on the left up to width 2, after a leading sign.
zfill2(s) ==
    IF Len(s) >= 2 THEN s
    ELSE IF s = <<>> THEN <<"0","0">>
    ELSE IF s[1] \in {"+","-"} THEN <<s[1], "0">>
    ELSE <<"0", s[1]>>

\* String.prototype.padStart(2, '0')
padStart2(s) ==
    IF Len(s) >= 2 THEN s
    ELSE IF Len(s) = 1 THEN <<"0", s[1]>>
    ELSE <<"0","0">>

\* The non-empty elements of seq, in order (filter(t => t)).
RECURSIVE SelectNonEmpty(_)
SelectNonEmpty(seq) ==
    IF seq = <<>> THEN <<>>
    ELSE IF seq[1] = <<>> THEN SelectNonEmpty(Tail(seq))
    ELSE <<seq[1]>> \o SelectNonEmpty(Tail(seq))

\* The value of a string of decimal digits (parseInt / int).
RECURSIVE ToNat(_)
ToNat(s) ==
    IF s = <<>> THEN 0
    ELSE 10 * ToNat(SubSeq(s, 1, Len(s) - 1)) + DigitVal[s[Len(s)]]

AllDigits(s) == \A i \in 1..Len(s) : s[i] \in Digits

----------------------------------------------------------------------------
(* recommender.py                                                          *)

\* Faulty variant: only too few parts raise (parts[0], parts[1], parts[2] indexed).
parse_slot_date_raises_too_few(fecha_disponible) ==
    Len(Split(fecha_disponible, "/")) < 3

\* parse_slot_date raises ValueError when the unpacking of split("/") into
\* day, month, year does not find exactly three parts.
parse_slot_date_raises(fecha_disponible) ==
    Len(Split(fecha_disponible, "/")) # 3

parse_slot_date(fecha_disponible) ==
    LET parts == Split(fecha_disponible, "/")
        day   == parts[1]
        month == parts[2]
        year  == parts[3]
    IN  year \o <<"-">> \o zfill2(month) \o <<"-">> \o zfill2(day)

format_slot_datetime(slot) ==
    LET iso_date == parse_slot_date(slot.fechaDisponible)
        time_str == slot.horaDisponible
    IN  iso_date \o <<" ">> \o time_str

\* Faulty variant: x goes before the elements of equal key.
RECURSIVE InsertByKeyBeforeEqual(_, _)
InsertByKeyBeforeEqual(x, sorted) ==
    IF sorted = <<>> THEN <<x>>
    ELSE IF ~StrLt(format_slot_datetime(sorted[1]), format_slot_datetime(x))
         THEN <<x>> \o sorted
         ELSE <<sorted[1]>> \o InsertByKeyBeforeEqual(x, Tail(sorted))

\* sorted(): x goes after every element whose key is not greater (stable).
RECURSIVE InsertByKey(_, _)
InsertByKey(x, sorted) ==
    IF sorted = <<>> THEN <<x>>
    ELSE IF StrLt(format_slot_datetime(x), format_slot_datetime(sorted[1]))
         THEN <<x>> \o sorted
         ELSE <<sorted[1]>> \o InsertByKey(x, Tail(sorted))

RECURSIVE SortedFrom(_, _)
SortedFrom(slots, acc) ==
    IF slots = <<>> THEN acc
    ELSE SortedFrom(Tail(slots), InsertByKey(slots[1], acc))

\* sorted() computes the key of every element: one bad date raises.
sort_slots_by_datetime_raises(slots) ==
    \E i \in 1..Len(slots) : parse_slot_date_raises(slots[i].fechaDisponible)

\* Faulty variant: sorted(slots, key=format_slot_datetime)[::-1]
sort_slots_by_datetime_reversed(slots) ==
    LET asc == SortedFrom(slots, <<>>)
    IN  [i \in 1..Len(asc) |-> asc[Len(asc) + 1 - i]]

sort_slots_by_datetime(slots) == SortedFrom(slots, <<>>)

format_slot_datetime_iso(slot) ==
    LET iso_date == parse_slot_date(slot.fechaDisponible)
        time_str == slot.horaDisponible
    IN  iso_date \o <<"T">> \o time_str \o <<":","0","0">>

----------------------------------------------------------------------------
(* client.py: the extraction script run by page.evaluate (lines 279-339)   *)

Agendar == <<"A","g","e","n","d","a","r">>

monthNames ==
    << <<"E","n","e","r","o">>,
       <<"F","e","b","r","e","r","o">>,
       <<"M","a","r","z","o">>,
       <<"A","b","r","i","l">>,
       <<"M","a","y","o">>,
       <<"J","u","n","i","o">>,
       <<"J","u","l","i","o">>,
       <<"A","g","o","s","t","o">>,
       <<"S","e","p","t","i","e","m","b","r","e">>,
       <<"O","c","t","u","b","r","e">>,
       <<"N","o","v","i","e","m","b","r","e">>,
       <<"D","i","c","i","e","m","b","r","e">> >>

\* The keys of monthMap, and the value of each key.
monthMapKeys ==
    << <<"e","n","e","r","o">>,
       <<"f","e","b","r","e","r","o">>,
       <<"m","a","r","z","o">>,
       <<"a","b","r","i","l">>,
       <<"m","a","y","o">>,
       <<"j","u","n","i","o">>,
       <<"j","u","l","i","o">>,
       <<"a","g","o","s","t","o">>,
       <<"s","e","p","t","i","e","m","b","r","e">>,
       <<"o","c","t","u","b","r","e">>,
       <<"n","o","v","i","e","m","b","r","e">>,
       <<"d","i","c","i","e","m","b","r","e">> >>

monthMapValues ==
    << <<"0","1">>, <<"0","2">>, <<"0","3">>, <<"0","4">>, <<"0","5">>,
       <<"0","6">>, <<"0","7">>, <<"0","8">>, <<"0","9">>, <<"1","0">>,
       <<"1","1">>, <<"1","2">> >>

\* monthMap[key] || '01'
monthMap(key) ==
    IF \E i \in 1..Len(monthMapKeys) : monthMapKeys[i] = key
    THEN monthMapValues[CHOOSE i \in 1..Len(monthMapKeys) : monthMapKeys[i] = key]
    ELSE <<"0","1">>

\* /^\d{1,2}$/.test(line) && parseInt(line) >= 1 && parseInt(line) <= 31
IsDayLine(line) ==
    /\ Len(line) \in {1, 2}
    /\ AllDigits(line)
    /\ ToNat(line) >= 1
    /\ ToNat(line) <= 31

\* m.toLowerCase() for each m of monthNames
monthNamesLower == [i \in 1..Len(monthNames) |-> ToLower(monthNames[i])]

\* monthNames.some(m => line.toLowerCase() === m.toLowerCase())
IsMonthLine(line) ==
    LET lower == ToLower(line)
    IN  \E i \in 1..Len(monthNames) : lower = monthNamesLower[i]

\* /^\d{1,2}:\d{2}$/.test(line)
IsTimeLine(line) ==
    /\ Len(line) \in {4, 5}
    /\ line[Len(line) - 2] = ":"
    /\ AllDigits(SubSeq(line, 1, Len(line) - 3))
    /\ AllDigits(SubSeq(line, Len(line) - 1, Len(line)))

\* text.split('\n').map(t => t.trim()).filter(t => t)
CardLines(text) ==
    LET parts == Split(text, "\n")
    IN  SelectNonEmpty([i \in 1..Len(parts) |-> Trim(parts[i])])

\* Faulty variant: the first line that passes the test.
FirstDay(lines) ==
    LET hit == {i \in 1..Len(lines) : IsDayLine(lines[i])}
    IN  IF hit = {} THEN <<>>
        ELSE lines[CHOOSE i \in hit : \A j \in hit : i <= j]

\* The value a variable assigned in `for (const line of lines)` holds after
\* the loop: the last line that passes the test, '' when none does.
LastDay(lines) ==
    LET hit == {i \in 1..Len(lines) : IsDayLine(lines[i])}
    IN  IF hit = {} THEN <<>>
        ELSE lines[CHOOSE i \in hit : \A j \in hit : j <= i]

LastMonth(lines) ==
    LET hit == {i \in 1..Len(lines) : IsMonthLine(lines[i])}
    IN  IF hit = {} THEN <<>>
        ELSE lines[CHOOSE i \in hit : \A j \in hit : j <= i]

LastTime(lines) ==
    LET hit == {i \in 1..Len(lines) : IsTimeLine(lines[i])}
    IN  IF hit = {} THEN <<>>
        ELSE lines[CHOOSE i \in hit : \A j \in hit : j <= i]

\* Faulty variant: `if (officeName)` instead of
\* `if (officeName && day && month)`.
CardSlotsOfAnyCard(text, year) ==
    IF ~Contains(text, Agendar) THEN <<>>
    ELSE
      LET lines      == CardLines(text)
          officeName == IF Len(lines) > 0 THEN lines[1] ELSE <<>>
          address    == IF Len(lines) > 1 THEN lines[2] ELSE <<>>
          day        == LastDay(lines)
          month      == LastMonth(lines)
          time       == LastTime(lines)
      IN  IF officeName # <<>>
          THEN << [ nombreOficina    |-> officeName,
                    direccionOficina |-> address,
                    fechaDisponible  |->
                        padStart2(day) \o <<"/">> \o monthMap(ToLower(month))
                                       \o <<"/">> \o year,
                    horaDisponible   |-> IF time # <<>> THEN time
                                         ELSE <<"0","0",":","0","0">>,
                    idOficina        |-> <<>> ] >>
          ELSE <<>>

\* The body of cards.forEach: the records one card adds to `slots`.
CardSlots(text, year) ==
    IF ~Contains(text, Agendar) THEN <<>>
    ELSE
      LET lines      == CardLines(text)
          officeName == IF Len(lines) > 0 THEN lines[1] ELSE <<>>
          address    == IF Len(lines) > 1 THEN lines[2] ELSE <<>>
          day        == LastDay(lines)
          month      == LastMonth(lines)
          time       == LastTime(lines)
      IN  IF officeName # <<>> /\ day # <<>> /\ month # <<>>
          THEN << [ nombreOficina    |-> officeName,
                    direccionOficina |-> address,
                    fechaDisponible  |->
                        padStart2(day) \o <<"/">> \o monthMap(ToLower(month))
                                       \o <<"/">> \o year,
                    horaDisponible   |-> IF time # <<>> THEN time
                                         ELSE <<"0","0",":","0","0">>,
                    idOficina        |-> <<>> ] >>
          ELSE <<>>

\* The script's return value for the cards of the page, in document order.
RECURSIVE ExtractSlots(_, _)
ExtractSlots(cards, year) ==
    IF cards = <<>> THEN <<>>
    ELSE CardSlots(cards[1], year) \o ExtractSlots(Tail(cards), year)

----------------------------------------------------------------------------
(* client.py: duplicate removal (lines 341-351)                            *)

\* Faulty variant: the address is part of the key.
SlotKeyWithAddress(slot) ==
    slot.nombreOficina \o <<"_">> \o slot.direccionOficina
                       \o <<"_">> \o slot.fechaDisponible
                       \o <<"_">> \o slot.horaDisponible

SlotKey(slot) ==
    slot.nombreOficina \o <<"_">> \o slot.fechaDisponible
                       \o <<"_">> \o slot.horaDisponible

RECURSIVE UniqueFrom(_, _, _)
UniqueFrom(slots_data, seen, unique_slots) ==
    IF slots_data = <<>> THEN unique_slots
    ELSE LET slot == slots_data[1]
             key  == SlotKey(slot)
         IN  IF key \notin seen
             THEN UniqueFrom(Tail(slots_data), seen \cup {key},
                             Append(unique_slots, slot))
             ELSE UniqueFrom(Tail(slots_data), seen, unique_slots)

RemoveDuplicates(slots_data) == UniqueFrom(slots_data, {}, <<>>)

----------------------------------------------------------------------------
(* client.py: SRCEIPlaywrightClient                                        *)

\* The state of a handle: None, a live object, or an object that was closed.
Handle == {"none", "open", "closed"}

\* __init__ (lines 35-39)
NewClient ==
    [ playwright |-> "none", browser |-> "none", context |-> "none",
      page |-> "none", is_authenticated |-> FALSE ]

IndexOf(seq, x) == CHOOSE i \in 1..Len(seq) : seq[i] = x

\* The calls of start_browser, in program order.
StartSteps ==
    << "async_playwright.start", "chromium.launch", "browser.new_context",
       "context.new_page", "page.add_init_script" >>

\* The calls made when the step `fail` raises ("none": no step raises).
CallsUpTo(steps, fail) ==
    IF fail = "none" THEN steps ELSE SubSeq(steps, 1, IndexOf(steps, fail))

\* Whether `step` returned (was reached and did not raise).
Returned(steps, fail, step) ==
    fail = "none" \/ IndexOf(steps, step) < IndexOf(steps, fail)

\* start_browser (lines 41-60): each handle is assigned when its call returns.
start_browser(c, fail) ==
    [ client |->
        [ c EXCEPT
            !.playwright = IF Returned(StartSteps, fail, "async_playwright.start")
                           THEN "open" ELSE @,
            !.browser    = IF Returned(StartSteps, fail, "chromium.launch")
                           THEN "open" ELSE @,
            !.context    = IF Returned(StartSteps, fail, "browser.new_context")
                           THEN "open" ELSE @,
            !.page       = IF Returned(StartSteps, fail, "context.new_page")
                           THEN "open" ELSE @ ],
      raised |-> fail # "none",
      calls  |-> CallsUpTo(StartSteps, fail) ]

\* Faulty variant: the engine is stopped first, the page closed last.
close_engine_first(c) ==
    [ client |->
        [ c EXCEPT
            !.page       = IF @ # "none" THEN "closed" ELSE @,
            !.context    = IF @ # "none" THEN "closed" ELSE @,
            !.browser    = IF @ # "none" THEN "closed" ELSE @,
            !.playwright = IF @ # "none" THEN "closed" ELSE @ ],
      raised |-> FALSE,
      calls  |->
           (IF c.playwright # "none" THEN <<"playwright.stop">> ELSE <<>>)
        \o (IF c.browser # "none" THEN <<"browser.close">> ELSE <<>>)
        \o (IF c.context # "none" THEN <<"context.close">> ELSE <<>>)
        \o (IF c.page # "none" THEN <<"page.close">> ELSE <<>>) ]

\* Faulty variant: close also clears the authenticated flag.
close_resets_flag(c) ==
    [ client |->
        [ c EXCEPT
            !.page       = IF @ # "none" THEN "closed" ELSE @,
            !.context    = IF @ # "none" THEN "closed" ELSE @,
            !.browser    = IF @ # "none" THEN "closed" ELSE @,
            !.playwright = IF @ # "none" THEN "closed" ELSE @,
            !.is_authenticated = FALSE ],
      raised |-> FALSE,
      calls  |->
           (IF c.page # "none" THEN <<"page.close">> ELSE <<>>)
        \o (IF c.context # "none" THEN <<"context.close">> ELSE <<>>)
        \o (IF c.browser # "none" THEN <<"browser.close">> ELSE <<>>)
        \o (IF c.playwright # "none" THEN <<"playwright.stop">> ELSE <<>>) ]

\* close (lines 62-71): closes, in this order, every handle that is set.
\* Playwright's close calls on a closed or crashed target return normally.
close(c) ==
    [ client |->
        [ c EXCEPT
            !.page       = IF @ # "none" THEN "closed" ELSE @,
            !.context    = IF @ # "none" THEN "closed" ELSE @,
            !.browser    = IF @ # "none" THEN "closed" ELSE @,
            !.playwright = IF @ # "none" THEN "closed" ELSE @ ],
      raised |-> FALSE,
      calls  |->
           (IF c.page # "none" THEN <<"page.close">> ELSE <<>>)
        \o (IF c.context # "none" THEN <<"context.close">> ELSE <<>>)
        \o (IF c.browser # "none" THEN <<"browser.close">> ELSE <<>>)
        \o (IF c.playwright # "none" THEN <<"playwright.stop">> ELSE <<>>) ]

RequestRejected ==
    <<"R","e","q","u","e","s","t"," ","R","e","j","e","c","t","e","d">>

Seleccion == <<"s","e","l","e","c","c","i","o","n">>

ReservaDeHora == <<"R","e","s","e","r","v","a"," ","d","e"," ","H","o","r","a">>

\* The calls of login's try block, in program order.
LoginSteps ==
    << "page.goto", "page.title", "page.wait_for_selector", "page.fill(run)",
       "page.fill(pass)", "page.click(submit)", "page.wait_for_load_state",
       "page.title(after)" >>

\* Faulty variant: the block page is not looked for.
IsBlockPageNever(title) == FALSE

\* "Request Rejected" in title (line 99)
IsBlockPage(title) == Contains(title, RequestRejected)

\* "seleccion" in current_url.lower() or "Reserva de Hora" in title (line 122)
IsLoginSuccess(current_url, title) ==
    Contains(ToLower(current_url), Seleccion) \/ Contains(title, ReservaDeHora)

\* Faulty variant: `self.is_authenticated = <the result of the test>`
FlagAssigned(before, ok) == ok

\* The flag after the test of line 122: line 123 sets it on success; the
\* else branch and the except block (lines 126-132) do not assign it.
FlagAfterLogin(before, ok) == IF ok THEN TRUE ELSE before

\* login (lines 82-132). e.start: the step of start_browser that raises;
\* e.fail: the step of the try block that raises; e.title, e.url, e.title2:
\* what the portal shows after the navigation and after the submission.
login(c, e) ==
    LET sb      == IF c.page = "none" THEN start_browser(c, e.start)
                   ELSE [client |-> c, raised |-> FALSE, calls |-> <<>>]
        c1      == sb.client
        \* every call on a page that is not open raises
        fail    == IF c1.page # "open" THEN "page.goto" ELSE e.fail
        blocked == /\ Returned(LoginSteps, fail, "page.title")
                   /\ IsBlockPage(e.title)
        ok      == /\ fail = "none"
                   /\ ~blocked
                   /\ IsLoginSuccess(e.url, e.title2)
    IN  IF sb.raised
        THEN [ client |-> c1, ret |-> FALSE, raised |-> TRUE,
               outcome |-> "LaunchFailure", title |-> <<>>,
               current_url |-> <<>>, title2 |-> <<>>,
               exc |-> e.start, calls |-> sb.calls ]
        ELSE [ client |-> [c1 EXCEPT !.is_authenticated = FlagAfterLogin(@, ok)],
               ret    |-> ok,
               raised |-> FALSE,
               \* the branch taken: line 101, line 125, or lines 128 and 132
               outcome |-> IF blocked THEN "Blocked"
                           ELSE IF ok THEN "Authenticated" ELSE "Failed",
               \* the title read at line 98, '' when the call was not reached
               title  |-> IF Returned(LoginSteps, fail, "page.title")
                          THEN e.title ELSE <<>>,
               \* the URL and the title read at lines 119-120, '' when the
               \* calls were not reached
               current_url |-> IF fail = "none" /\ ~blocked THEN e.url ELSE <<>>,
               title2 |-> IF fail = "none" /\ ~blocked THEN e.title2 ELSE <<>>,
               \* the call that raised and was caught at line 130
               exc    |-> IF blocked THEN "none" ELSE fail,
               calls  |-> sb.calls \o
                          (IF blocked THEN CallsUpTo(LoginSteps, "page.title")
                           ELSE CallsUpTo(LoginSteps, fail)) ]

\* Faulty variant: the precondition looks at the page, not at the flag.
must_login_first_no_page(c) == c.page = "none"

\* `if not self.is_authenticated: raise ValueError("Must login first")`
\* (lines 144-145 and 261-262)
must_login_first(c) == ~c.is_authenticated

\* Faulty variant: `if await self.select_...(...): return []`
ShortCircuitsOnSuccess(ret) == ret

\* Faulty variant: the result of the selection is not looked at.
ShortCircuitsNever(ret) == FALSE

\* `if not await self.select_...(...): return []` (lines 265-266, 269-270)
ShortCircuits(ret) == ~ret

\* procedure_map.get(procedure_id, procedure_id) (lines 147-158)
procedure_map(procedure_id) ==
    CASE procedure_id = <<"6">> -> <<"R","e","n","o","v","a","c","i","ó","n"," ","C","h","i","l","e","n","o","/","a">>
      [] procedure_id = <<"9">> -> <<"R","e","i","m","p","r","e","s","i","ó","n"," ","c","é","d","u","l","a">>
      [] procedure_id = <<"1","0">> -> <<"R","e","n","o","v","a","c","i","ó","n"," ","E","x","t","r","a","n","j","e","r","o","/","a">>
      [] procedure_id = <<"1","1">> -> <<"S","o","l","i","c","i","t","u","d"," ","d","e"," ","P","a","s","a","p","o","r","t","e">>
      [] procedure_id = <<"1","2">> -> <<"M","e","n","o","r","e","s"," ","d","e"," ","E","d","a","d">>
      [] procedure_id = <<"1","3">> -> <<"A","p","o","s","t","i","l","l","a">>
      [] procedure_id = <<"1","4">> -> <<"R","e","c","t","i","f","i","c","a","c","i","o","n","e","s">>
      [] procedure_id = <<"1","5">> -> <<"V","e","h","í","c","u","l","o","s">>
      [] OTHER -> procedure_id

\* The selectors of select_procedure's first loop, in list order.
ProcedureSelectors ==
    << "page.click(button:has-text)", "page.click(text=)",
       "page.click(button:text-is)" >>

\* What each strategy of select_procedure matches the label against:
\* button:has-text("...") a button that contains the label,
\* text="..." an element whose text is the label, button:text-is("...") a
\* button whose text is the label, and the loop over button.btn a button
\* whose text contains the first word of the label.
StrategyKind(call) ==
    CASE call = "page.click(button:has-text)" -> "substring"
      [] call = "page.click(text=)" -> "exact"
      [] call = "page.click(button:text-is)" -> "exact"
      [] call = "page.query_selector_all" -> "first_word"
      [] OTHER -> "none"

\* n copies of x
Repeat(x, n) == [i \in 1..n |-> x]

\* The elements of seq at the positions of S, in order.
PickInOrder(seq, S) ==
    LET F[i \in 0..Len(seq)] ==
            IF i = 0 THEN <<>>
            ELSE IF i \in S THEN Append(F[i - 1], seq[i]) ELSE F[i - 1]
    IN  F[Len(seq)]

\* Faulty variant: no `break` after a click that returned.
TriedAll(hits) == Len(ProcedureSelectors)

\* The number of selectors the loop of lines 170-177 goes through: it
\* breaks after the first click that returns (hits: the selectors whose
\* click returns).
TriedUpTo(hits) ==
    IF hits = {} THEN Len(ProcedureSelectors)
    ELSE CHOOSE i \in hits : \A j \in hits : i <= j

\* select_procedure (lines 134-199). e.click[i]: whether the click on the
\* i-th selector finds a control; e.buttons: the texts of the button.btn
\* elements; e.fail: the later call that raises, if any.
select_procedure(c, procedure_id, e) ==
    LET procedure_name == procedure_map(procedure_id)
        usable   == c.page = "open"
        hits     == {i \in 1..Len(ProcedureSelectors) : usable /\ e.click[i]}
        first    == TriedUpTo(hits)
        tried    == SubSeq(ProcedureSelectors, 1, first)
        done     == PickInOrder(tried, hits)
        words    == Words(procedure_name)
        queryErr == ~usable \/ e.fail = "page.query_selector_all"
        \* the buttons whose text contains the first word of the name
        match    == IF words = <<>> THEN {}
                    ELSE {i \in 1..Len(e.buttons) : Contains(e.buttons[i], words[1])}
        firstBtn == IF match = {} THEN Len(e.buttons)
                    ELSE CHOOSE i \in match : \A j \in match : i <= j
        \* inner_text raises, or split()[0] raises IndexError, at button 1
        textErr  == /\ e.buttons # <<>>
                    /\ (e.fail = "btn.inner_text" \/ words = <<>>)
        idleErr  == e.fail = "page.wait_for_load_state"
        wait     == [ ret   |-> ~idleErr,
                      calls |-> <<"page.wait_for_load_state">> ]
        fallback ==
            IF queryErr
            THEN [ ret |-> FALSE, clicked |-> <<>>,
                   calls |-> <<"page.query_selector_all">> ]
            ELSE IF textErr
            THEN [ ret   |-> FALSE, clicked |-> <<>>,
                   calls |-> <<"page.query_selector_all", "btn.inner_text">> ]
            ELSE IF match = {}
            THEN [ ret   |-> FALSE, clicked |-> <<>>,
                   calls |-> <<"page.query_selector_all">>
                             \o Repeat("btn.inner_text", Len(e.buttons)) ]
            ELSE IF e.fail = "btn.click"
            THEN [ ret   |-> FALSE, clicked |-> <<>>,
                   calls |-> <<"page.query_selector_all">>
                             \o Repeat("btn.inner_text", firstBtn)
                             \o <<"btn.click">> ]
            ELSE [ ret   |-> wait.ret, clicked |-> <<"btn.click">>,
                   calls |-> <<"page.query_selector_all">>
                             \o Repeat("btn.inner_text", firstBtn)
                             \o <<"btn.click">> \o wait.calls ]
    IN  IF must_login_first(c)
        THEN [ client |-> c, ret |-> FALSE, raised |-> TRUE, calls |-> <<>>,
               clicked |-> <<>> ]
        ELSE IF hits # {}
        THEN [ client |-> c, ret |-> wait.ret, raised |-> FALSE,
               calls |-> tried \o wait.calls, clicked |-> done ]
        ELSE [ client |-> c, ret |-> fallback.ret, raised |-> FALSE,
               calls |-> tried \o fallback.calls,
               clicked |-> fallback.clicked ]

\* The selectors of select_region, in list order.
RegionSelectors ==
    << "select", "select[name=idRegion]", "select#idRegion",
       "select.form-control" >>

\* What one round of select_region's loop meets: no element, query_selector
\* raises, select_option returns, select_option raises.
RegionOutcome == {"absent", "query_raises", "selected", "select_raises"}

\* Faulty variant: no `break` after a selection that returned.
RECURSIVE RegionCallsNoBreak(_, _)
RegionCallsNoBreak(outcomes, i) ==
    IF i > Len(RegionSelectors) THEN <<>>
    ELSE LET q == "page.query_selector(" \o RegionSelectors[i] \o ")"
             s == "page.select_option(" \o RegionSelectors[i] \o ")"
         IN  IF outcomes[i] \in {"selected", "select_raises"}
             THEN <<q, s>> \o RegionCallsNoBreak(outcomes, i + 1)
             ELSE <<q>> \o RegionCallsNoBreak(outcomes, i + 1)

\* The calls of the loop of lines 225-234: the loop breaks after the first
\* select_option that returns; an exception of either call goes on to the
\* next selector (lines 233-234).
RECURSIVE RegionCalls(_, _)
RegionCalls(outcomes, i) ==
    IF i > Len(RegionSelectors) THEN <<>>
    ELSE LET q == "page.query_selector(" \o RegionSelectors[i] \o ")"
             s == "page.select_option(" \o RegionSelectors[i] \o ")"
         IN  CASE outcomes[i] = "selected" -> <<q, s>>
               [] outcomes[i] = "select_raises" ->
                      <<q, s>> \o RegionCalls(outcomes, i + 1)
               [] OTHER -> <<q>> \o RegionCalls(outcomes, i + 1)

\* select_region (lines 201-248). e.sel[i]: what the i-th selector meets;
\* e.idle: whether the wait for network idle returns.
select_region(c, region_id, e) ==
    LET usable   == c.page = "open"
        outcomes == [i \in 1..Len(RegionSelectors) |->
                        IF usable THEN e.sel[i] ELSE "query_raises"]
        selected == \E i \in 1..Len(RegionSelectors) : outcomes[i] = "selected"
    IN  IF ~selected
        THEN [ client |-> c, ret |-> FALSE, raised |-> FALSE,
               calls |-> RegionCalls(outcomes, 1) ]
        ELSE [ client |-> c, ret |-> e.idle, raised |-> FALSE,
               calls |-> RegionCalls(outcomes, 1)
                         \o <<"page.wait_for_load_state">> ]

\* The try block of get_slots_by_region (lines 274-355): evaluate the
\* script, remove duplicates; any exception gives []. e.slots_data: what
\* the script returns; e.raises: page.evaluate raises instead.
fetch_slots(c, e) ==
    IF c.page # "open" \/ e.raises
    THEN [slots |-> <<>>, calls |-> <<"page.evaluate">>]
    ELSE [ slots |-> RemoveDuplicates(e.slots_data),
           calls |-> <<"page.evaluate">> ]

----------------------------------------------------------------------------
(* slots.py: the GET /slots handler                                        *)

\* pattern="^(6|9|10|11|12|13|14|15)$" (line 23)
MatchesProcedurePattern(s) ==
    s \in { <<"6">>, <<"9">>, <<"1","0">>, <<"1","1">>, <<"1","2">>,
            <<"1","3">>, <<"1","4">>, <<"1","5">> }

\* Faulty variant: "^(1[0-9]|[1-9])$"
MatchesRegionPatternTo19(s) ==
    \/ /\ Len(s) = 2
       /\ s[1] = "1"
       /\ s[2] \in Digits
    \/ /\ Len(s) = 1
       /\ s[1] \in {"1","2","3","4","5","6","7","8","9"}

\* pattern="^(1[0-6]|[1-9])$" (line 28)
MatchesRegionPattern(s) ==
    \/ /\ Len(s) = 2
       /\ s[1] = "1"
       /\ s[2] \in {"0","1","2","3","4","5","6"}
    \/ /\ Len(s) = 1
       /\ s[1] \in {"1","2","3","4","5","6","7","8","9"}

\* Query(...): a required parameter that must match its pattern.
ValidQuery(q) ==
    /\ q.procedure_id.present
    /\ MatchesProcedurePattern(q.procedure_id.value)
    /\ q.region_id.present
    /\ MatchesRegionPattern(q.region_id.value)

\* Faulty variant: no validator on rut.
rut_is_not_validated(v) == FALSE

\* config.py rut_must_contain_dash (lines 19-25): raises unless "-" in v.
rut_must_contain_dash_raises(v) == ~Contains(v, <<"-">>)

NoPending ==
    [op |-> "", kind |-> "none", exc |-> "", status |-> 0, ret |-> "",
     body |-> <<>>]

Returns(op, ret, body) ==
    [op |-> op, kind |-> "return", exc |-> "", status |-> 0, ret |-> ret,
     body |-> body]

Raises(op, exc, status) ==
    [op |-> op, kind |-> "raise", exc |-> exc, status |-> status, ret |-> "",
     body |-> <<>>]

BoolName(b) == IF b THEN "True" ELSE "False"

NoResponse == [status |-> 0, slots |-> <<>>, count |-> 0]

\* SlotResponse(...) (lines 84-91)
SlotResponse(slot) ==
    [ office_name    |-> slot.nombreOficina,
      office_address |-> slot.direccionOficina,
      date           |-> slot.fechaDisponible,
      time           |-> slot.horaDisponible,
      datetime_iso   |-> format_slot_datetime_iso(slot),
      office_id      |-> slot.idOficina ]

\* Faulty variant: no slots is answered 404.
build_response_404(slots) ==
    IF slots = <<>> THEN Raises("handler", "HTTPException", 404)
    ELSE IF sort_slots_by_datetime_raises(slots)
    THEN Raises("handler", "ValueError", 0)
    ELSE LET sorted_slots == sort_slots_by_datetime(slots)
         IN  Returns("handler", "SlotListResponse",
                     [i \in 1..Len(sorted_slots) |->
                         SlotResponse(sorted_slots[i])])

\* Lines 69-103: what the handler's body does with raw_slots.
build_response(slots) ==
    IF slots = <<>> THEN Returns("handler", "SlotListResponse", <<>>)
    ELSE IF sort_slots_by_datetime_raises(slots)
    THEN Raises("handler", "ValueError", 0)
    ELSE LET sorted_slots == sort_slots_by_datetime(slots)
         IN  Returns("handler", "SlotListResponse",
                     [i \in 1..Len(sorted_slots) |->
                         SlotResponse(sorted_slots[i])])

\* Faulty variant: no `except HTTPException: raise` before `except Exception`.
DeliverWithoutReraise(p) ==
    IF p.kind = "return"
    THEN [status |-> 200, slots |-> p.body, count |-> Len(p.body)]
    ELSE [status |-> 500, slots |-> <<>>, count |-> 0]

\* Lines 105-109 and FastAPI: what the caller receives for `p`.
Deliver(p) ==
    IF p.kind = "return"
    THEN [status |-> 200, slots |-> p.body, count |-> Len(p.body)]
    ELSE IF p.exc = "HTTPException"
    THEN [status |-> p.status, slots |-> <<>>, count |-> 0]
    ELSE [status |-> 500, slots |-> <<>>, count |-> 0]

----------------------------------------------------------------------------
(* Inputs: what the caller sends and what the portal shows.                *)

Absent == [present |-> FALSE, value |-> <<>>]
Given(v) == [present |-> TRUE, value |-> v]

ProcedureInputs ==
    { Absent, Given(<<"6">>), Given(<<"1","1">>), Given(<<"9","9">>),
      Given(<<"7">>), Given(<<"0","6">>) }

RegionInputs ==
    { Absent, Given(<<"1","3">>), Given(<<"0">>), Given(<<"1","7">>),
      Given(<<"9","9">>), Given(<<"0","1">>) }

RutInputs == { <<"1","-","9">>, <<"1","9">> }

\* The query strings a request can carry.
QueryInputs ==
    [procedure_id : ProcedureInputs, region_id : RegionInputs, rut : RutInputs]

StartFails == {"none"} \cup {StartSteps[i] : i \in 1..Len(StartSteps)}

LoginFails == {"none"} \cup {LoginSteps[i] : i \in 1..Len(LoginSteps)}

Titles ==
    { RequestRejected, ReservaDeHora,
      <<"r","e","s","e","r","v","a"," ","d","e"," ","h","o","r","a">>,
      <<"L","o","g","i","n">> }

Urls ==
    { <<"/","i","n","i","t">>,
      <<"/","S","e","l","e","c","c","i","o","n","?","x">> }

\* start_browser runs inside login only when the client has no page.
LoginEnvs(c) ==
    [ start : IF c.page = "none" THEN StartFails ELSE {"none"},
      fail : LoginFails, title : Titles, url : Urls, title2 : Titles ]

ButtonLists ==
    { <<>>,
      << <<"O","t","r","o">> >>,
      << <<"O","t","r","o">>, <<"R","e","n","o","v","a","c","i","ó","n">> >>,
      << <<"S","o","l","i","c","i","t","u","d"," ","P","a","s","a","p","o","r","t","e">>,
         <<"R","e","n","o","v","a","c","i","ó","n">> >> }

ProcedureFails ==
    { "none", "page.query_selector_all", "btn.inner_text", "btn.click",
      "page.wait_for_load_state" }

ProcedureEnvs ==
    [ click : [1..Len(ProcedureSelectors) -> BOOLEAN],
      buttons : ButtonLists, fail : ProcedureFails ]

RegionEnvs ==
    [ sel : [1..Len(RegionSelectors) -> RegionOutcome], idle : BOOLEAN ]

\* The text of the cards the page shows (card.innerText).
\* "A\nCalle 1\n29\nEnero\n9:30\nAgendar"
CardA930 ==
    <<"A","\n","C","a","l","l","e"," ","1","\n","2","9","\n","E","n","e","r","o","\n","9",":","3","0","\n","A","g","e","n","d","a","r">>

\* " A \nCalle 2\n\n29\nenero\n9:30\nAgendar hora"
CardA930Dup ==
    <<" ","A"," ","\n","C","a","l","l","e"," ","2","\n","\n","2","9","\n","e","n","e","r","o","\n","9",":","3","0","\n","A","g","e","n","d","a","r"," ","h","o","r","a">>

\* "B\nCalle 3\n29\nEnero\n10:00\nAgendar"
CardB1000 ==
    <<"B","\n","C","a","l","l","e"," ","3","\n","2","9","\n","E","n","e","r","o","\n","1","0",":","0","0","\n","A","g","e","n","d","a","r">>

\* "B\nCalle 3\n5\nFebrero\nAgendar"
CardBNoTime ==
    <<"B","\n","C","a","l","l","e"," ","3","\n","5","\n","F","e","b","r","e","r","o","\n","A","g","e","n","d","a","r">>

\* "C\nCalle 4\n30\nEnero\n08:15\nVer"
CardNotBookable ==
    <<"C","\n","C","a","l","l","e"," ","4","\n","3","0","\n","E","n","e","r","o","\n","0","8",":","1","5","\n","V","e","r">>

\* "C\nCalle 4\nMarzo\n11:00\nAgendar"
CardNoDay ==
    <<"C","\n","C","a","l","l","e"," ","4","\n","M","a","r","z","o","\n","1","1",":","0","0","\n","A","g","e","n","d","a","r">>

CardPool ==
    { CardA930, CardA930Dup, CardB1000, CardBNoTime, CardNotBookable,
      CardNoDay }

\* The most cards a page of the model shows.
MaxCards == 3

SeqsUpTo(S, n) == UNION {[1..k -> S] : k \in 0..n}

\* new Date().getFullYear()
Years == { <<"2","0","2","6">> }

\* What the script returns on each page of at most MaxCards cards.
ScriptResults ==
    { ExtractSlots(cards, year) :
        cards \in SeqsUpTo(CardPool, MaxCards), year \in Years }

FetchEnvs == [raises : BOOLEAN, slots_data : ScriptResults]

----------------------------------------------------------------------------
(* The request pipeline: one GET /slots request per element of DOMAIN pc.  *)

NoQuery == [procedure_id |-> Absent, region_id |-> Absent, rut |-> <<>>]

NoAuth ==
    [outcome |-> "Unauthenticated", ret |-> FALSE, raised |-> FALSE,
     title |-> <<>>, current_url |-> <<>>, title2 |-> <<>>, exc |-> "none"]

\* No list is being normalised outside a request.
NoSort ==
    [state |-> "off", raised |-> FALSE, sorted |-> <<>>,
     response |-> NoResponse]

\* No page is being evaluated, no date parsed, outside a request.
NoEval == [state |-> "off", slots |-> <<>>]

NoDate == [day |-> 0, month |-> 0, year |-> <<>>, text |-> <<>>]

NoParse == [state |-> "off", raised |-> FALSE, iso_date |-> <<>>]

\* The requests of the model: one GET /slots request.
Requests == {"r1"}

\* Faulty variant: one client object, built once, serves every request.
SharedSession(r) == "r1"

\* The client object request r works on: the one its own call of get_slots
\* built at line 60 and holds in the local variable `client`.
SessionOf(r) == r

Init ==
    /\ pc        = [r \in Requests |-> "new"]
    /\ query     = [r \in Requests |-> NoQuery]
    /\ client    = [r \in Requests |-> NewClient]
    /\ scraped = [r \in Requests |-> <<>>]
    /\ raw_slots = [r \in Requests |-> <<>>]
    /\ pending   = [r \in Requests |-> NoPending]
    /\ response  = [r \in Requests |-> NoResponse]
    /\ auth      = [r \in Requests |-> NoAuth]
    /\ failed    = [r \in Requests |-> ""]
    /\ stages    = [r \in Requests |-> <<>>]
    /\ trace     = [r \in Requests |-> <<>>]
    /\ clicked   = [r \in Requests |-> <<>>]
    /\ ncalls    = [r \in Requests |-> 0]
    /\ sortIn    = <<>>
    /\ sortOut   = NoSort
    /\ evalIn    = <<>>
    /\ evalOut   = NoEval
    /\ parseIn   = NoDate
    /\ parseOut  = NoParse

\* In the actions below, `inputs` is the set the step's input is drawn
\* from: what the caller sent, or what the browser and the portal do.

\* FastAPI validates the query parameters before it calls get_slots
\* (lines 19-32): a request that fails gets 422 and the body never runs.
Receive(r, inputs) ==
    /\ pc[r] = "new"
    /\ \E q \in inputs :
             /\ query' = [query EXCEPT ![r] = q]
             /\ IF ValidQuery(q)
                THEN /\ pc' = [pc EXCEPT ![r] = "handler"]
                     /\ UNCHANGED response
                ELSE /\ pc' = [pc EXCEPT ![r] = "done"]
                     /\ response' = [response EXCEPT ![r] =
                            [status |-> 422, slots |-> <<>>, count |-> 0]]
    /\ UNCHANGED <<client, scraped, raw_slots, pending, auth, failed, stages,
                   trace, ncalls,
                   sortIn, sortOut, pureVars, clicked>>

\* Lines 52-60: SRCEIConfig(...) runs the rut validator, the constructor
\* calls config.validate() (pydantic's, not in the repository: it returns
\* or raises) and sets the fields. An exception reaches line 107.
BuildClient(r) ==
    /\ pc[r] = "handler"
    /\ \E validateReturns \in BOOLEAN :
         IF rut_must_contain_dash_raises(query[r].rut) \/ ~validateReturns
         THEN /\ pc' = [pc EXCEPT ![r] = "done"]
              /\ response' = [response EXCEPT ![r] =
                     Deliver(Raises("handler", "ValueError", 0))]
              /\ UNCHANGED client
         ELSE /\ pc' = [pc EXCEPT ![r] = "aenter"]
              /\ client' = [client EXCEPT ![SessionOf(r)] = NewClient]
              /\ UNCHANGED response
    /\ UNCHANGED <<query, scraped, raw_slots, pending, auth, failed, stages,
                   trace, ncalls,
                   sortIn, sortOut, pureVars, clicked>>

\* __aenter__ (lines 73-76). When start_browser raises, the `async with`
\* statement does not run __aexit__: the exception goes to line 107.
AEnter(r, inputs) ==
    /\ pc[r] = "aenter"
    /\ \E fail \in inputs :
         LET sb == start_browser(client[SessionOf(r)], fail)
         IN  /\ client' = [client EXCEPT ![SessionOf(r)] = sb.client]
             /\ trace' = [trace EXCEPT ![r] = sb.calls]
             /\ IF sb.raised
                THEN /\ pc' = [pc EXCEPT ![r] = "done"]
                     /\ response' = [response EXCEPT ![r] =
                            Deliver(Raises("start_browser", "Error", 0))]
                ELSE /\ pc' = [pc EXCEPT ![r] = "login"]
                     /\ UNCHANGED response
    /\ stages' = [stages EXCEPT ![r] = Append(@, "start_browser")]
    /\ UNCHANGED <<query, scraped, raw_slots, pending, auth, failed, ncalls,
                   sortIn, sortOut, pureVars, clicked>>

\* Lines 62-64: login, and HTTPException(503) when it returns False.
HandlerLogin(r, inputs) ==
    /\ pc[r] = "login"
    /\ \E e \in inputs :
         LET out == login(client[SessionOf(r)], e)
         IN  /\ client' = [client EXCEPT ![SessionOf(r)] = out.client]
             /\ trace' = [trace EXCEPT ![r] = out.calls]
             /\ auth' = [auth EXCEPT ![r] =
                    [outcome |-> out.outcome, ret |-> out.ret,
                     raised |-> out.raised, title |-> out.title,
                     current_url |-> out.current_url,
                     title2 |-> out.title2, exc |-> out.exc]]
             /\ IF out.raised
                THEN /\ pending' = [pending EXCEPT ![r] =
                            Raises("login", "Error", 0)]
                     /\ pc' = [pc EXCEPT ![r] = "aexit"]
                ELSE IF ~out.ret
                THEN /\ pending' = [pending EXCEPT ![r] =
                            Raises("handler", "HTTPException", 503)]
                     /\ pc' = [pc EXCEPT ![r] = "aexit"]
                ELSE /\ pc' = [pc EXCEPT ![r] = "call_gsr"]
                     /\ UNCHANGED pending
    /\ stages' = [stages EXCEPT ![r] = Append(@, "login")]
    /\ UNCHANGED <<query, scraped, raw_slots, response, failed, ncalls, sortIn,
                   sortOut, pureVars, clicked>>

\* get_slots_by_region, lines 261-262: the precondition.
GsrEnter(r) ==
    /\ pc[r] = "call_gsr"
    /\ stages' = [stages EXCEPT ![r] = Append(@, "get_slots_by_region")]
    /\ trace' = [trace EXCEPT ![r] = <<>>]
    /\ scraped' = [scraped EXCEPT ![r] = <<>>]
    /\ raw_slots' = [raw_slots EXCEPT ![r] = <<>>]
    /\ failed' = [failed EXCEPT ![r] = ""]
    /\ IF must_login_first(client[SessionOf(r)])
       THEN /\ pending' = [pending EXCEPT ![r] =
                   Raises("get_slots_by_region", "ValueError", 0)]
            /\ pc' = [pc EXCEPT ![r] = "gsr_return"]
       ELSE /\ pending' = [pending EXCEPT ![r] = NoPending]
            /\ pc' = [pc EXCEPT ![r] = "gsr_procedure"]
    /\ UNCHANGED <<query, client, response, auth, ncalls, sortIn, sortOut,
                   pureVars, clicked>>

\* get_slots_by_region, lines 264-266.
GsrSelectProcedure(r, inputs) ==
    /\ pc[r] = "gsr_procedure"
    /\ \E e \in inputs :
         LET out == select_procedure(client[SessionOf(r)], query[r].procedure_id.value, e)
         IN  /\ trace' = [trace EXCEPT ![r] = out.calls]
             /\ clicked' = [clicked EXCEPT ![r] = out.clicked]
             /\ IF out.raised
                THEN /\ pending' = [pending EXCEPT ![r] =
                            Raises("get_slots_by_region", "ValueError", 0)]
                     /\ pc' = [pc EXCEPT ![r] = "gsr_return"]
                ELSE IF ShortCircuits(out.ret)
                THEN /\ pending' = [pending EXCEPT ![r] =
                            Returns("get_slots_by_region", "list", <<>>)]
                     /\ pc' = [pc EXCEPT ![r] = "gsr_return"]
                ELSE /\ pc' = [pc EXCEPT ![r] = "gsr_region"]
                     /\ UNCHANGED pending
             /\ failed' = [failed EXCEPT ![r] =
                    IF out.raised \/ ~out.ret THEN "select_procedure" ELSE @]
    /\ stages' = [stages EXCEPT ![r] = Append(@, "select_procedure")]
    /\ UNCHANGED <<query, client, scraped, raw_slots, response, auth, ncalls,
                   sortIn, sortOut, pureVars>>

\* get_slots_by_region, lines 268-270.
GsrSelectRegion(r, inputs) ==
    /\ pc[r] = "gsr_region"
    /\ \E e \in inputs :
         LET out == select_region(client[SessionOf(r)], query[r].region_id.value, e)
         IN  /\ trace' = [trace EXCEPT ![r] = out.calls]
             /\ IF ShortCircuits(out.ret)
                THEN /\ pending' = [pending EXCEPT ![r] =
                            Returns("get_slots_by_region", "list", <<>>)]
                     /\ pc' = [pc EXCEPT ![r] = "gsr_return"]
                ELSE /\ pc' = [pc EXCEPT ![r] = "gsr_fetch"]
                     /\ UNCHANGED pending
             /\ failed' = [failed EXCEPT ![r] =
                    IF ~out.ret THEN "select_region" ELSE @]
    /\ stages' = [stages EXCEPT ![r] = Append(@, "select_region")]
    /\ UNCHANGED <<query, client, scraped, raw_slots, response, auth, ncalls,
                   sortIn, sortOut, pureVars, clicked>>

\* get_slots_by_region, lines 272-355.
GsrFetch(r, inputs) ==
    /\ pc[r] = "gsr_fetch"
    /\ \E e \in inputs :
         LET out == fetch_slots(client[SessionOf(r)], e)
         IN  /\ trace' = [trace EXCEPT ![r] = out.calls]
             /\ scraped' = [scraped EXCEPT ![r] =
                    IF client[SessionOf(r)].page # "open" \/ e.raises THEN <<>>
                    ELSE e.slots_data]
             /\ raw_slots' = [raw_slots EXCEPT ![r] = out.slots]
             /\ pending' = [pending EXCEPT ![r] =
                    Returns("get_slots_by_region", "list", out.slots)]
             /\ failed' = [failed EXCEPT ![r] =
                    IF client[SessionOf(r)].page # "open" \/ e.raises THEN "extract"
                    ELSE @]
    /\ pc' = [pc EXCEPT ![r] = "gsr_return"]
    /\ stages' = [stages EXCEPT ![r] = Append(@, "extract")]
    /\ UNCHANGED <<query, client, response, auth, ncalls, sortIn, sortOut,
                   pureVars, clicked>>

\* Lines 67-103: the handler takes what get_slots_by_region returned, or
\* lets its exception pass; it calls sort_slots_by_datetime (line 80) when
\* the list is not empty.
HandlerSlots(r) ==
    /\ pc[r] = "gsr_return"
    /\ pending' = [pending EXCEPT ![r] =
           IF @.kind = "raise" THEN @ ELSE build_response(raw_slots[r])]
    /\ stages' = [stages EXCEPT ![r] =
           IF pending[r].kind # "raise" /\ raw_slots[r] # <<>>
           THEN Append(@, "sort_slots_by_datetime") ELSE @]
    /\ pc' = [pc EXCEPT ![r] = "aexit"]
    /\ UNCHANGED <<query, client, scraped, raw_slots, response, auth, failed,
                   trace, ncalls, sortIn, sortOut, pureVars, clicked>>

\* __aexit__ (lines 78-80) on the way out of the `async with` block, then
\* lines 105-109.
AExit(r) ==
    /\ pc[r] = "aexit"
    /\ LET cl == close(client[SessionOf(r)])
       IN  /\ client' = [client EXCEPT ![SessionOf(r)] = cl.client]
           /\ trace' = [trace EXCEPT ![r] = cl.calls]
    /\ stages' = [stages EXCEPT ![r] = Append(@, "close")]
    /\ response' = [response EXCEPT ![r] = Deliver(pending[r])]
    /\ pc' = [pc EXCEPT ![r] = "done"]
    /\ UNCHANGED <<query, scraped, raw_slots, pending, auth, failed, ncalls,
                   sortIn, sortOut, pureVars, clicked>>

Next ==
    \E r \in Requests :
        \/ Receive(r, QueryInputs)
        \/ BuildClient(r)
        \/ AEnter(r, StartFails)
        \/ HandlerLogin(r, LoginEnvs(client[SessionOf(r)]))
        \/ GsrEnter(r)
        \/ GsrSelectProcedure(r, ProcedureEnvs)
        \/ GsrSelectRegion(r, RegionEnvs)
        \/ GsrFetch(r, FetchEnvs)
        \/ HandlerSlots(r)
        \/ AExit(r)

Spec == Init /\ [][Next]_vars

----------------------------------------------------------------------------
(* A caller that holds one client object and calls its methods directly,   *)
(* in any order.                                                           *)

\* The most direct calls the caller makes on the client.
MaxCalls == 3

ApiProcedureIds == { <<"6">>, <<>> }

ApiRegionIds == { <<"1","3">> }

\* The client objects of the model.
Sessions == {"s1"}

ClientInit ==
    /\ pc        = [r \in Sessions |-> "api"]
    /\ query     = [r \in Sessions |-> NoQuery]
    /\ client    = [r \in Sessions |-> NewClient]
    /\ scraped   = [r \in Sessions |-> <<>>]
    /\ raw_slots = [r \in Sessions |-> <<>>]
    /\ pending   = [r \in Sessions |-> NoPending]
    /\ response  = [r \in Sessions |-> NoResponse]
    /\ auth      = [r \in Sessions |-> NoAuth]
    /\ failed    = [r \in Sessions |-> ""]
    /\ stages    = [r \in Sessions |-> <<>>]
    /\ trace     = [r \in Sessions |-> <<>>]
    /\ clicked   = [r \in Sessions |-> <<>>]
    /\ ncalls    = [r \in Sessions |-> 0]
    /\ sortIn    = <<>>
    /\ sortOut   = NoSort
    /\ evalIn    = <<>>
    /\ evalOut   = NoEval
    /\ parseIn   = NoDate
    /\ parseOut  = NoParse

\* await client.login()
ApiLogin(r) ==
    /\ pc[r] = "api"
    /\ ncalls[r] < MaxCalls
    /\ \E e \in LoginEnvs(client[r]) :
         LET out == login(client[r], e)
         IN  /\ client' = [client EXCEPT ![r] = out.client]
             /\ trace' = [trace EXCEPT ![r] = out.calls]
             /\ auth' = [auth EXCEPT ![r] =
                    [outcome |-> out.outcome, ret |-> out.ret,
                     raised |-> out.raised, title |-> out.title,
                     current_url |-> out.current_url,
                     title2 |-> out.title2, exc |-> out.exc]]
             /\ pending' = [pending EXCEPT ![r] =
                    IF out.raised THEN Raises("login", "Error", 0)
                    ELSE Returns("login", BoolName(out.ret), <<>>)]
    /\ stages' = [stages EXCEPT ![r] = <<"login">>]
    /\ ncalls' = [ncalls EXCEPT ![r] = @ + 1]
    /\ pc' = [pc EXCEPT ![r] = "returned"]
    /\ UNCHANGED <<query, scraped, raw_slots, response, failed, sortIn,
                   sortOut, pureVars, clicked>>

\* await client.select_procedure(procedure_id)
ApiSelectProcedure(r) ==
    /\ pc[r] = "api"
    /\ ncalls[r] < MaxCalls
    /\ \E id \in ApiProcedureIds, e \in ProcedureEnvs :
         LET out == select_procedure(client[r], id, e)
         IN  /\ client' = [client EXCEPT ![r] = out.client]
             /\ trace' = [trace EXCEPT ![r] = out.calls]
             /\ clicked' = [clicked EXCEPT ![r] = out.clicked]
             /\ pending' = [pending EXCEPT ![r] =
                    IF out.raised
                    THEN Raises("select_procedure", "ValueError", 0)
                    ELSE Returns("select_procedure", BoolName(out.ret), <<>>)]
    /\ stages' = [stages EXCEPT ![r] = <<"select_procedure">>]
    /\ ncalls' = [ncalls EXCEPT ![r] = @ + 1]
    /\ pc' = [pc EXCEPT ![r] = "returned"]
    /\ UNCHANGED <<query, scraped, raw_slots, response, auth, failed, sortIn,
                   sortOut, pureVars>>

\* await client.select_region(region_id)
ApiSelectRegion(r) ==
    /\ pc[r] = "api"
    /\ ncalls[r] < MaxCalls
    /\ \E id \in ApiRegionIds, e \in RegionEnvs :
         LET out == select_region(client[r], id, e)
         IN  /\ client' = [client EXCEPT ![r] = out.client]
             /\ trace' = [trace EXCEPT ![r] = out.calls]
             /\ pending' = [pending EXCEPT ![r] =
                    Returns("select_region", BoolName(out.ret), <<>>)]
    /\ stages' = [stages EXCEPT ![r] = <<"select_region">>]
    /\ ncalls' = [ncalls EXCEPT ![r] = @ + 1]
    /\ pc' = [pc EXCEPT ![r] = "returned"]
    /\ UNCHANGED <<query, scraped, raw_slots, response, auth, failed, sortIn,
                   sortOut, pureVars, clicked>>

\* await client.get_slots_by_region(procedure_id, region_id): the call; the
\* method's steps are the Gsr actions.
ApiGetSlots(r) ==
    /\ pc[r] = "api"
    /\ ncalls[r] < MaxCalls
    /\ \E p \in ApiProcedureIds, g \in ApiRegionIds :
         query' = [query EXCEPT ![r] =
             [procedure_id |-> Given(p), region_id |-> Given(g),
              rut |-> @.rut]]
    /\ pc' = [pc EXCEPT ![r] = "call_gsr"]
    /\ pending' = [pending EXCEPT ![r] = NoPending]
    /\ stages' = [stages EXCEPT ![r] = <<>>]
    /\ trace' = [trace EXCEPT ![r] = <<>>]
    /\ ncalls' = [ncalls EXCEPT ![r] = @ + 1]
    /\ UNCHANGED <<client, scraped, raw_slots, response, auth, failed, sortIn,
                   sortOut, pureVars, clicked>>

\* The call is over: the caller has the return value or the exception, and
\* of the call only the client object's fields remain.
ApiReturn(r) ==
    /\ pc[r] \in {"returned", "gsr_return"}
    /\ pc' = [pc EXCEPT ![r] = "api"]
    /\ query' = [query EXCEPT ![r] = NoQuery]
    /\ scraped' = [scraped EXCEPT ![r] = <<>>]
    /\ raw_slots' = [raw_slots EXCEPT ![r] = <<>>]
    /\ pending' = [pending EXCEPT ![r] = NoPending]
    /\ auth' = [auth EXCEPT ![r] = NoAuth]
    /\ failed' = [failed EXCEPT ![r] = ""]
    /\ stages' = [stages EXCEPT ![r] = <<>>]
    /\ trace' = [trace EXCEPT ![r] = <<>>]
    /\ clicked' = [clicked EXCEPT ![r] = <<>>]
    /\ UNCHANGED <<client, response, ncalls, sortIn, sortOut, pureVars>>

\* await client.close()
ApiClose(r) ==
    /\ pc[r] = "api"
    /\ ncalls[r] < MaxCalls
    /\ LET cl == close(client[r])
       IN  /\ client' = [client EXCEPT ![r] = cl.client]
           /\ trace' = [trace EXCEPT ![r] = cl.calls]
    /\ pending' = [pending EXCEPT ![r] = Returns("close", "None", <<>>)]
    /\ stages' = [stages EXCEPT ![r] = <<"close">>]
    /\ ncalls' = [ncalls EXCEPT ![r] = @ + 1]
    /\ pc' = [pc EXCEPT ![r] = "returned"]
    /\ UNCHANGED <<query, scraped, raw_slots, response, auth, failed, sortIn,
                   sortOut, pureVars, clicked>>

ClientNext ==
    \E r \in Sessions :
        \/ ApiLogin(r)
        \/ ApiSelectProcedure(r)
        \/ ApiSelectRegion(r)
        \/ ApiGetSlots(r)
        \/ GsrEnter(r)
        \/ GsrSelectProcedure(r, ProcedureEnvs)
        \/ GsrSelectRegion(r, RegionEnvs)
        \/ GsrFetch(r, FetchEnvs)
        \/ ApiReturn(r)
        \/ ApiClose(r)

SpecClient == ClientInit /\ [][ClientNext]_vars

----------------------------------------------------------------------------
(* Two GET /slots requests in flight at once: FastAPI runs each call of    *)
(* get_slots as its own task on the event loop, and the tasks interleave   *)
(* at every await.                                                         *)

Pair == {"r1", "r2"}

\* A valid query, and one whose rut has no dash.
PairQueries ==
    [ procedure_id : {Given(<<"6">>)}, region_id : {Given(<<"1","3">>)},
      rut : RutInputs ]

PairStartFails == {"none", "chromium.launch"}

\* The navigation raises or returns; the portal shows the block page or
\* the form, and after the submission the success page or the form again.
PairLoginEnvs ==
    [ start : {"none"}, fail : {"none", "page.goto"},
      title : {RequestRejected, <<"L","o","g","i","n">>},
      url : {<<"/","i","n","i","t">>},
      title2 : {ReservaDeHora, <<"L","o","g","i","n">>} ]

\* The first selector finds the control, or nothing does.
PairProcedureEnvs ==
    [ click : {[i \in 1..Len(ProcedureSelectors) |-> i = 1],
               [i \in 1..Len(ProcedureSelectors) |-> FALSE]},
      buttons : {<<>>}, fail : {"none"} ]

PairRegionEnvs ==
    [ sel : {[i \in 1..Len(RegionSelectors) |-> "absent"],
             [i \in 1..Len(RegionSelectors) |->
                 IF i = 1 THEN "selected" ELSE "absent"]},
      idle : {TRUE} ]

\* The script raises, or returns the records of a page with no card or
\* with one card.
PairFetchEnvs ==
    [ raises : BOOLEAN,
      slots_data : { ExtractSlots(cards, <<"2","0","2","6">>) :
                        cards \in {<<>>, <<CardA930>>} } ]

PairInit ==
    /\ pc        = [r \in Pair |-> "new"]
    /\ query     = [r \in Pair |-> NoQuery]
    /\ client    = [r \in Pair |-> NewClient]
    /\ scraped   = [r \in Pair |-> <<>>]
    /\ raw_slots = [r \in Pair |-> <<>>]
    /\ pending   = [r \in Pair |-> NoPending]
    /\ response  = [r \in Pair |-> NoResponse]
    /\ auth      = [r \in Pair |-> NoAuth]
    /\ failed    = [r \in Pair |-> ""]
    /\ stages    = [r \in Pair |-> <<>>]
    /\ trace     = [r \in Pair |-> <<>>]
    /\ clicked   = [r \in Pair |-> <<>>]
    /\ ncalls    = [r \in Pair |-> 0]
    /\ sortIn    = <<>>
    /\ sortOut   = NoSort
    /\ evalIn    = <<>>
    /\ evalOut   = NoEval
    /\ parseIn   = NoDate
    /\ parseOut  = NoParse

\* One step of request r.
PairStep(r) ==
    \/ Receive(r, PairQueries)
    \/ BuildClient(r)
    \/ AEnter(r, PairStartFails)
    \/ HandlerLogin(r, PairLoginEnvs)
    \/ GsrEnter(r)
    \/ GsrSelectProcedure(r, PairProcedureEnvs)
    \/ GsrSelectRegion(r, PairRegionEnvs)
    \/ GsrFetch(r, PairFetchEnvs)
    \/ HandlerSlots(r)
    \/ AExit(r)

PairNext == \E r \in Pair : PairStep(r)

SpecPair == PairInit /\ [][PairNext]_vars

----------------------------------------------------------------------------
(* The requests and a page that may stop answering. page.evaluate (line    *)
(* 279) takes no timeout: Playwright waits for the page's answer for as    *)
(* long as it takes. The other waits of the pipeline end by themselves:    *)
(* wait_for_selector and the clicks of select_procedure state a timeout    *)
(* (lines 105, 172), goto, wait_for_load_state, fill, click and            *)
(* select_option fall under Playwright's default timeout, asyncio.sleep    *)
(* ends; a wait that times out raises, which the actions above cover.      *)

\* Line 279 when the page never answers: the task stays suspended at the
\* await, and nothing of the request runs after it.
EvaluateNeverAnswers(r) ==
    /\ pc[r] = "gsr_fetch"
    /\ pc' = [pc EXCEPT ![r] = "awaiting_evaluate"]
    /\ trace' = [trace EXCEPT ![r] = <<"page.evaluate">>]
    /\ stages' = [stages EXCEPT ![r] = Append(@, "extract")]
    /\ UNCHANGED <<query, client, scraped, raw_slots, pending, response, auth,
                   failed, ncalls, sortIn, sortOut, pureVars, clicked>>

LiveStep(r) == PairStep(r) \/ EvaluateNeverAnswers(r)

LiveNext == \E r \in Pair : LiveStep(r)

\* The event loop resumes every task whose awaited call has ended: a
\* request that can take a step takes one.
SpecLive ==
    /\ PairInit
    /\ [][LiveNext]_vars
    /\ \A r \in Pair : WF_vars(LiveStep(r))

----------------------------------------------------------------------------
(* The normalisation of a batch of raw records (slots.py lines 69-103) on  *)
(* lists of records of any content.                                        *)

Slot(name, address, fecha, hora, id) ==
    [ nombreOficina |-> name, direccionOficina |-> address,
      fechaDisponible |-> fecha, horaDisponible |-> hora, idOficina |-> id ]

SortPool ==
    { Slot(<<"B">>, <<>>, <<"3","0","/","0","1","/","2","0","2","6">>,
           <<"1","0",":","0","0">>, <<>>),
      Slot(<<"A">>, <<>>, <<"2","9","/","0","1","/","2","0","2","6">>,
           <<"1","5",":","0","0">>, <<>>),
      Slot(<<"C">>, <<>>, <<"2","9","/","0","1","/","2","0","2","6">>,
           <<"0","9",":","3","0">>, <<>>),
      Slot(<<"D">>, <<>>, <<"2","9","-","0","1","-","2","0","2","6">>,
           <<"0","9",":","3","0">>, <<>>),
      Slot(<<"E">>, <<>>, <<"2","9","/","0","1","/","2","0","2","6","/","1">>,
           <<"0","9",":","3","0">>, <<>>),
      Slot(<<"F">>, <<>>, <<"5","/","3","/","2","0","2","6">>,
           <<"9",":","3","0">>, <<"7">>),
      Slot(<<"G">>, <<>>, <<"2","9","/","1","/","2","0","2","6">>,
           <<"0","9",":","3","0">>, <<>>) }

\* The longest list that is normalised.
MaxSortLen == 3

SortInit ==
    /\ pc        = <<>>
    /\ query     = <<>>
    /\ client    = <<>>
    /\ scraped   = <<>>
    /\ raw_slots = <<>>
    /\ pending   = <<>>
    /\ response  = <<>>
    /\ auth      = <<>>
    /\ failed    = <<>>
    /\ stages    = <<>>
    /\ trace     = <<>>
    /\ clicked   = <<>>
    /\ ncalls    = <<>>
    /\ sortIn \in SeqsUpTo(SortPool, MaxSortLen)
    /\ sortOut = [NoSort EXCEPT !.state = "idle"]
    /\ evalIn    = <<>>
    /\ evalOut   = NoEval
    /\ parseIn   = NoDate
    /\ parseOut  = NoParse

\* sort_slots_by_datetime(sortIn), and the response the handler builds of
\* the list and FastAPI delivers.
Normalize ==
    /\ sortOut.state = "idle"
    /\ sortOut' =
         [ state    |-> "done",
           raised   |-> sort_slots_by_datetime_raises(sortIn),
           sorted   |-> IF sort_slots_by_datetime_raises(sortIn) THEN <<>>
                        ELSE sort_slots_by_datetime(sortIn),
           response |-> Deliver(build_response(sortIn)) ]
    /\ UNCHANGED <<pc, query, client, scraped, raw_slots, pending, response,
                   auth, failed, stages, trace, ncalls, sortIn, pureVars,
                   clicked>>

SortNext == Normalize

SpecSort == SortInit /\ [][SortNext]_vars

----------------------------------------------------------------------------
(* parse_slot_date (recommender.py lines 6-17) on the date texts D/M/YYYY  *)
(* of every day number and month number, written with and without a        *)
(* leading zero.                                                           *)

DigitChar == <<"0","1","2","3","4","5","6","7","8","9">>

\* A number below 100 written without and with a leading zero.
Plain(n) ==
    IF n < 10 THEN <<DigitChar[n + 1]>>
    ELSE <<DigitChar[(n \div 10) + 1], DigitChar[(n % 10) + 1]>>

Padded(n) == <<DigitChar[(n \div 10) + 1], DigitChar[(n % 10) + 1]>>

DateYears == { <<"2","0","2","5">>, <<"2","0","2","6">> }

DateInputs ==
    UNION { { [ day |-> d, month |-> m, year |-> y,
                text |-> dt \o <<"/">> \o mt \o <<"/">> \o y ] :
              dt \in {Plain(d), Padded(d)}, mt \in {Plain(m), Padded(m)},
              y \in DateYears } :
            d \in 1..31, m \in 1..12 }

DateInit ==
    /\ pc        = <<>>
    /\ query     = <<>>
    /\ client    = <<>>
    /\ scraped   = <<>>
    /\ raw_slots = <<>>
    /\ pending   = <<>>
    /\ response  = <<>>
    /\ auth      = <<>>
    /\ failed    = <<>>
    /\ stages    = <<>>
    /\ trace     = <<>>
    /\ clicked   = <<>>
    /\ ncalls    = <<>>
    /\ sortIn    = <<>>
    /\ sortOut   = NoSort
    /\ evalIn    = <<>>
    /\ evalOut   = NoEval
    /\ parseIn \in DateInputs
    /\ parseOut  = [NoParse EXCEPT !.state = "idle"]

\* parse_slot_date(parseIn.text)
ParseSlotDate ==
    /\ parseOut.state = "idle"
    /\ parseOut' =
         [ state    |-> "done",
           raised   |-> parse_slot_date_raises(parseIn.text),
           iso_date |-> IF parse_slot_date_raises(parseIn.text) THEN <<>>
                        ELSE parse_slot_date(parseIn.text) ]
    /\ UNCHANGED <<pc, query, client, scraped, raw_slots, pending, response,
                   auth, failed, stages, trace, ncalls, sortIn, sortOut,
                   evalIn, evalOut, parseIn, clicked>>

DateNext == ParseSlotDate

SpecDate == DateInit /\ [][DateNext]_vars

----------------------------------------------------------------------------
(* The extraction script (client.py lines 279-339) on one card at a time:  *)
(* an office line, an address line, some further lines and the line of     *)
(* the card's button.                                                      *)

\* A line of a card: its text, what kind of token the text is, and the
\* value the token stands for (two-digit day, month number, time).
Line(kind, text, value) == [kind |-> kind, text |-> text, value |-> value]

OfficeLines == { Line("other", <<"A">>, <<>>) }

AddressLines ==
    { Line("other", <<"C","a","l","l","e"," ","1">>, <<>>),
      Line("day", <<"1","2">>, <<"1","2">>) }

TokenPool ==
    { Line("day", <<"2","9">>, <<"2","9">>),
      Line("day", <<"5">>, <<"0","5">>),
      Line("other", <<"3","2">>, <<>>),
      Line("month", <<"E","n","e","r","o">>, <<"0","1">>),
      Line("month", <<"m","a","r","z","o">>, <<"0","3">>),
      Line("time", <<"9",":","3","0">>, <<"9",":","3","0">>),
      Line("time", <<"1","0",":","0","0">>, <<"1","0",":","0","0">>) }

ButtonLines ==
    { Line("book", <<"A","g","e","n","d","a","r"," ","h","o","r","a">>, <<>>),
      Line("other", <<"V","e","r">>, <<>>) }

\* The most lines between the address and the button.
MaxTokens == 3

\* card.innerText: the lines, each ended by a line break but the last.
RECURSIVE InnerText(_)
InnerText(lines) ==
    IF lines = <<>> THEN <<>>
    ELSE IF Len(lines) = 1 THEN lines[1].text
    ELSE lines[1].text \o <<"\n">> \o InnerText(Tail(lines))

CardInputs ==
    { [ lines |-> <<o, a>> \o ts \o <<b>>,
        text  |-> InnerText(<<o, a>> \o ts \o <<b>>) ] :
      o \in OfficeLines, a \in AddressLines,
      ts \in SeqsUpTo(TokenPool, MaxTokens), b \in ButtonLines }

ExtractInit ==
    /\ pc        = <<>>
    /\ query     = <<>>
    /\ client    = <<>>
    /\ scraped   = <<>>
    /\ raw_slots = <<>>
    /\ pending   = <<>>
    /\ response  = <<>>
    /\ auth      = <<>>
    /\ failed    = <<>>
    /\ stages    = <<>>
    /\ trace     = <<>>
    /\ clicked   = <<>>
    /\ ncalls    = <<>>
    /\ sortIn    = <<>>
    /\ sortOut   = NoSort
    /\ evalIn \in CardInputs
    /\ evalOut   = [NoEval EXCEPT !.state = "idle"]
    /\ parseIn   = NoDate
    /\ parseOut  = NoParse

\* page.evaluate(script) on a page that shows the card evalIn.
Evaluate ==
    /\ evalOut.state = "idle"
    /\ \E year \in Years :
         evalOut' = [ state |-> "done",
                      slots |-> ExtractSlots(<<evalIn.text>>, year) ]
    /\ UNCHANGED <<pc, query, client, scraped, raw_slots, pending, response,
                   auth, failed, stages, trace, ncalls, sortIn, sortOut,
                   evalIn, parseIn, parseOut, clicked>>

ExtractNext == Evaluate

SpecExtract == ExtractInit /\ [][ExtractNext]_vars

----------------------------------------------------------------------------
(* Properties.                                                             *)

Last(seq) == seq[Len(seq)]

InSeq(x, seq) == \E i \in 1..Len(seq) : seq[i] = x

Done(r) == pc[r] = "done"

\* C1: when a request has returned to its caller, every handle its session
\* acquired (engine, browser, context, page) has been released.
C1_AllReleasedOnReturn ==
    \A r \in DOMAIN pc :
        Done(r) =>
            /\ client[r].playwright # "open"
            /\ client[r].browser # "open"
            /\ client[r].context # "open"
            /\ client[r].page # "open"

\* The calendar reading of a returned slot: year, month, day, hour, minute.
ChronoKey(s) ==
    LET d == Split(s.date, "/")
        t == Split(s.time, ":")
    IN  <<ToNat(d[3]), ToNat(d[2]), ToNat(d[1]), ToNat(t[1]), ToNat(t[2])>>

RECURSIVE NatSeqLeq(_, _)
NatSeqLeq(a, b) ==
    IF a = <<>> THEN TRUE
    ELSE IF a[1] = b[1] THEN NatSeqLeq(Tail(a), Tail(b))
    ELSE a[1] < b[1]

\* C2: the slots of a 200 response are in ascending chronological order of
\* (date, time).
C2_ReturnedSlotsChronological ==
    \A r \in DOMAIN pc :
        (Done(r) /\ response[r].status = 200) =>
            \A i, j \in 1..Len(response[r].slots) :
                i < j => NatSeqLeq(ChronoKey(response[r].slots[i]),
                                   ChronoKey(response[r].slots[j]))

Triple(slot) ==
    <<slot.nombreOficina, slot.fechaDisponible, slot.horaDisponible>>

\* The positions of the records that are the first of their triple.
FirstSeen(raw) ==
    {i \in 1..Len(raw) :
        \A j \in 1..(i - 1) : Triple(raw[j]) # Triple(raw[i])}

\* C3: what get_slots_by_region keeps of the script's records is, in the
\* original order, exactly the first record of every (office name, date,
\* time) triple; later records of a triple are dropped whatever their
\* address or identifier, and no two kept records share a triple.
C3_DedupKeepsFirstSeen ==
    \A r \in DOMAIN pc :
        LET raw   == scraped[r]
            kept  == raw_slots[r]
            first == FirstSeen(raw)
        IN  /\ Len(kept) = Cardinality(first)
            /\ \A i \in first :
                   kept[Cardinality({j \in first : j <= i})] = raw[i]
            /\ \A a, b \in 1..Len(kept) :
                   a # b => Triple(kept[a]) # Triple(kept[b])

\* Three records, the third repeating the first's triple with another
\* address: the first two are kept.
C3_Witness ==
    \E r \in DOMAIN pc :
        /\ Len(scraped[r]) = 3
        /\ Triple(scraped[r][1]) = Triple(scraped[r][3])
        /\ scraped[r][1].direccionOficina # scraped[r][3].direccionOficina
        /\ raw_slots[r] = <<scraped[r][1], scraped[r][2]>>

LoginReturnedFalse(r) ==
    InSeq("login", stages[r]) /\ ~auth[r].raised /\ ~auth[r].ret

\* C4: once login() has returned False, the request runs no procedure
\* selection, region selection or extraction, and its caller gets 503 and
\* no slot list.
C4_LoginFailureAborts ==
    \A r \in DOMAIN pc :
        LoginReturnedFalse(r) =>
            /\ pc[r] \in {"aexit", "done"}
            /\ \A st \in {"get_slots_by_region", "select_procedure",
                          "select_region", "extract"} :
                   ~InSeq(st, stages[r])
            /\ Done(r) => /\ response[r].status = 503
                          /\ response[r].slots = <<>>

C4_Witness ==
    \E r \in DOMAIN pc :
        /\ Done(r)
        /\ LoginReturnedFalse(r)
        /\ auth[r].outcome = "Failed"
        /\ response[r].status = 503

\* What the caller has of a login: its return value and the response.
LoginView(r) == [ret |-> auth[r].ret, response |-> response[r]]

\* The view every generic failure of login gives.
FailedLoginView ==
    [ret |-> FALSE, response |-> [status |-> 503, slots |-> <<>>, count |-> 0]]

C6_PreconditionFailure ==
    \A r \in DOMAIN pc :
        ( /\ stages[r] # <<>>
          /\ stages[r][1] \in {"select_procedure", "get_slots_by_region"}
          /\ ~client[r].is_authenticated ) =>
            /\ pending[r].kind = "raise"
            /\ pending[r].exc = "ValueError"
            /\ trace[r] = <<>>
            /\ Len(stages[r]) = 1

\* select_procedure called after a login that failed: the page is open.
C6_Witness ==
    \E r \in DOMAIN pc :
        /\ stages[r] = <<"select_procedure">>
        /\ ~client[r].is_authenticated
        /\ client[r].page = "open"
        /\ pending[r].kind = "raise"

\* select_procedure went through its three selectors and clicked nothing.
NoControlClicked(tr) ==
    /\ InSeq("page.click(button:text-is)", tr)
    /\ ~InSeq("btn.click", tr)
    /\ ~InSeq("page.wait_for_load_state", tr)

\* C7: on an authenticated session a select_procedure that finds no control
\* returns False, and get_slots_by_region then returns [] without entering
\* select_region or the extraction; a False from select_region gives []
\* without the extraction.
C7_SelectionFailureShortCircuits ==
    \A r \in DOMAIN pc :
        /\ ( /\ stages[r] # <<>>
             /\ Last(stages[r]) = "select_procedure"
             /\ NoControlClicked(trace[r]) ) =>
               /\ failed[r] = "select_procedure"
               /\ pc[r] \in {"gsr_return", "aexit"}
        /\ failed[r] = "select_procedure" =>
               /\ ~InSeq("select_region", stages[r])
               /\ ~InSeq("extract", stages[r])
               /\ pc[r] = "gsr_return" =>
                      pending[r] = Returns("get_slots_by_region", "list", <<>>)
        /\ failed[r] = "select_region" =>
               /\ ~InSeq("extract", stages[r])
               /\ pc[r] = "gsr_return" =>
                      pending[r] = Returns("get_slots_by_region", "list", <<>>)

C7_Witness ==
    \E r \in DOMAIN pc :
        /\ pc[r] = "gsr_return"
        /\ client[r].is_authenticated
        /\ Last(stages[r]) = "select_procedure"
        /\ NoControlClicked(trace[r])
        /\ InSeq("btn.inner_text", trace[r])
        /\ pending[r] = Returns("get_slots_by_region", "list", <<>>)

\* A date that does not hold exactly two '/'.
Malformed(fecha) == Cardinality({i \in 1..Len(fecha) : fecha[i] = "/"}) # 2

WellFormedCount(slots) ==
    Cardinality({i \in 1..Len(slots) : ~Malformed(slots[i].fechaDisponible)})

EmptyOk == [status |-> 200, slots |-> <<>>, count |-> 0]

\* C9 as stated: an empty list in the response means that the extraction
\* ran and found no slot.
C9_EmptyListMeansNoSlots ==
    \A r \in DOMAIN pc :
        (Done(r) /\ response[r] = EmptyOk) =>
            /\ InSeq("extract", stages[r])
            /\ failed[r] = ""

\* C9 as amended: once login has succeeded, a stage of get_slots_by_region
\* that fails gives the same 200 response with an empty list as an
\* extraction that finds no slot; an empty list is returned in these cases
\* only.
C9_EmptyListAlsoOnStageFailure ==
    \A r \in DOMAIN pc :
        Done(r) =>
            /\ failed[r] # "" => response[r] = EmptyOk
            /\ (InSeq("extract", stages[r]) /\ scraped[r] = <<>>) =>
                   response[r] = EmptyOk
            /\ response[r] = EmptyOk =>
                   /\ auth[r].outcome = "Authenticated"
                   /\ failed[r] # "" \/ scraped[r] = <<>>

C9_Witness ==
    \E r \in DOMAIN pc :
        /\ Done(r)
        /\ failed[r] = "select_region"
        /\ response[r] = EmptyOk

\* The ids the specification lists, and the integers from 1 to 16.
ListedProcedure(p) ==
    /\ p.present
    /\ p.value \in { <<"6">>, <<"9">>, <<"1","0">>, <<"1","1">>, <<"1","2">>,
                     <<"1","3">>, <<"1","4">>, <<"1","5">> }

RegionFrom1To16(g) ==
    /\ g.present
    /\ g.value # <<>>
    /\ AllDigits(g.value)
    /\ ToNat(g.value) >= 1
    /\ ToNat(g.value) <= 16

C11_ParseSlotDatePads ==
    ( /\ parseOut.state = "done"
      /\ parseIn.day \in 1..31
      /\ parseIn.month \in 1..12 ) =>
        /\ ~parseOut.raised
        /\ parseOut.iso_date =
               parseIn.year \o <<"-">> \o Padded(parseIn.month)
                            \o <<"-">> \o Padded(parseIn.day)
        /\ Len(parseOut.iso_date) = 10

\* "5/3/2026" gives "2026-03-05"
C11_Witness ==
    /\ parseOut.state = "done"
    /\ parseIn.text = <<"5","/","3","/","2","0","2","6">>
    /\ parseOut.iso_date = <<"2","0","2","6","-","0","3","-","0","5">>

\* YYYY-MM-DDTHH:MM:SS with seconds 00
IsIsoDateTime(t) ==
    /\ Len(t) = 19
    /\ \A i \in {1, 2, 3, 4, 6, 7, 9, 10, 12, 13, 15, 16} : t[i] \in Digits
    /\ t[5] = "-"
    /\ t[8] = "-"
    /\ t[11] = "T"
    /\ t[14] = ":"
    /\ t[17] = ":"
    /\ t[18] = "0"
    /\ t[19] = "0"

\* C12: every slot of a 200 response carries a datetime_iso of the shape
\* YYYY-MM-DDTHH:MM:SS with seconds 00.
C12_DatetimeIsoShape ==
    \A r \in DOMAIN pc :
        (Done(r) /\ response[r].status = 200) =>
            \A i \in 1..Len(response[r].slots) :
                IsIsoDateTime(response[r].slots[i].datetime_iso)

SortKeyLeq(a, b) == ~StrLt(format_slot_datetime(b), format_slot_datetime(a))

\* p maps the positions of `out` one to one to the positions of `inp` whose
\* records they hold, and keeps the order of the positions of equal key.
IsStableSortBy(p, inp, out) ==
    /\ \A i, j \in DOMAIN p : i # j => p[i] # p[j]
    /\ \A i \in DOMAIN p : out[i] = inp[p[i]]
    /\ \A i, j \in DOMAIN p :
           i < j =>
               /\ SortKeyLeq(out[i], out[j])
               /\ format_slot_datetime(out[i]) = format_slot_datetime(out[j])
                      => p[i] < p[j]

Names(slots) == [i \in 1..Len(slots) |-> slots[i].nombreOficina]

\* C13: sort_slots_by_datetime returns its input's records, each once,
\* in ascending order of the string "<ISO date> <time>", records of equal
\* string in their original order; for (30/01/2026, 10:00, B),
\* (29/01/2026, 15:00, A), (29/01/2026, 09:30, C) it returns C, A, B.
C13_SortIsStablePermutation ==
    (sortOut.state = "done" /\ ~sortOut.raised) =>
        /\ Len(sortOut.sorted) = Len(sortIn)
        /\ \E p \in [1..Len(sortIn) -> 1..Len(sortIn)] :
               IsStableSortBy(p, sortIn, sortOut.sorted)
        /\ Names(sortIn) = << <<"B">>, <<"A">>, <<"C">> >> =>
               Names(sortOut.sorted) = << <<"C">>, <<"A">>, <<"B">> >>

C13_Witness ==
    /\ sortOut.state = "done"
    /\ ~sortOut.raised
    /\ Names(sortIn) = << <<"B">>, <<"A">>, <<"C">> >>
    /\ Names(sortOut.sorted) = << <<"C">>, <<"A">>, <<"B">> >>

\* The keys of the list do not decrease.
IsAscending(slots) ==
    \A i, j \in 1..Len(slots) : i < j => SortKeyLeq(slots[i], slots[j])

\* C14: sort_slots_by_datetime returns a list whose keys are already in
\* ascending order unchanged; in particular it returns its own result
\* unchanged.
C14_SortIdempotent ==
    (sortOut.state = "done" /\ ~sortOut.raised) =>
        /\ IsAscending(sortIn) => sortOut.sorted = sortIn
        /\ sort_slots_by_datetime(sortOut.sorted) = sortOut.sorted

\* An ascending list of three records, two of them of equal key.
C14_Witness ==
    /\ sortOut.state = "done"
    /\ ~sortOut.raised
    /\ Names(sortIn) = << <<"G">>, <<"C">>, <<"B">> >>
    /\ sortOut.sorted = sortIn

\* The positions of the lines of a kind, and the first and last such line.
KindAt(lines, kind) == {i \in 1..Len(lines) : lines[i].kind = kind}

Has(lines, kind) == KindAt(lines, kind) # {}

FirstOf(lines, kind) ==
    lines[CHOOSE i \in KindAt(lines, kind) :
              \A j \in KindAt(lines, kind) : i <= j]

LastOf(lines, kind) ==
    lines[CHOOSE i \in KindAt(lines, kind) :
              \A j \in KindAt(lines, kind) : j <= i]

MidnightText == <<"0","0",":","0","0">>

\* C15: the script returns a record for a card exactly when the card has
\* the button text, a day line and a month line; the record's date has
\* three non-empty parts, and its time is "00:00" when the card has no
\* time line.
C15_RecordOnlyForDatedBookableCard ==
    evalOut.state = "done" =>
        LET lines == evalIn.lines
            slots == evalOut.slots
        IN  /\ Len(slots) <= 1
            /\ slots # <<>> <=>
                   (Has(lines, "book") /\ Has(lines, "day")
                                       /\ Has(lines, "month"))
            /\ \A i \in 1..Len(slots) :
                   LET parts == Split(slots[i].fechaDisponible, "/")
                   IN  /\ Len(parts) = 3
                       /\ \A k \in 1..3 : parts[k] # <<>>
            /\ (slots # <<>> /\ ~Has(lines, "time")) =>
                   slots[1].horaDisponible = MidnightText

\* A card with the button text, the lines "5" and "marzo" and no time line.
C15_Witness ==
    /\ evalOut.state = "done"
    /\ Has(evalIn.lines, "book")
    /\ ~Has(evalIn.lines, "time")
    /\ Len(evalOut.slots) = 1
    /\ evalOut.slots[1].fechaDisponible =
           <<"0","5","/","0","3","/","2","0","2","6">>
    /\ evalOut.slots[1].horaDisponible = MidnightText

\* The date a record has when its day and month are the values of the
\* lines d and m.
DateOf(d, m, year) == d.value \o <<"/">> \o m.value \o <<"/">> \o year

\* C20 as stated: the record of a card has the day, month and time of the
\* first day line, month line and time line among the lines after the
\* first two.
C20_FirstMatchAfterTwoLines ==
    (evalOut.state = "done" /\ evalOut.slots # <<>>) =>
        LET rest == SubSeq(evalIn.lines, 3, Len(evalIn.lines))
            rec  == evalOut.slots[1]
        IN  /\ Has(rest, "day")
            /\ Has(rest, "month")
            /\ \E year \in Years :
                   rec.fechaDisponible =
                       DateOf(FirstOf(rest, "day"), FirstOf(rest, "month"),
                              year)
            /\ rec.horaDisponible =
                   IF Has(rest, "time") THEN FirstOf(rest, "time").text
                   ELSE MidnightText

\* C20 as amended: the record of a card has the day, month and time of the
\* last day line, month line and time line among all the lines of the
\* card, the first two included.
C20_LastMatchOfAllLines ==
    (evalOut.state = "done" /\ evalOut.slots # <<>>) =>
        LET lines == evalIn.lines
            rec   == evalOut.slots[1]
        IN  /\ \E year \in Years :
                   rec.fechaDisponible =
                       DateOf(LastOf(lines, "day"), LastOf(lines, "month"),
                              year)
            /\ rec.horaDisponible =
                   IF Has(lines, "time") THEN LastOf(lines, "time").text
                   ELSE MidnightText
            /\ rec.nombreOficina = lines[1].text
            /\ rec.direccionOficina = lines[2].text

\* A card whose only day line is its address line "12" and that has the
\* time lines "9:30" and "10:00" in this order.
C20_Witness ==
    /\ evalOut.state = "done"
    /\ evalIn.lines[2].kind = "day"
    /\ ~Has(SubSeq(evalIn.lines, 3, Len(evalIn.lines)), "day")
    /\ Len(evalOut.slots) = 1
    /\ evalOut.slots[1].fechaDisponible =
           <<"1","2","/","0","1","/","2","0","2","6">>
    /\ Has(evalIn.lines, "time")
    /\ FirstOf(evalIn.lines, "time").text = <<"9",":","3","0">>
    /\ evalOut.slots[1].horaDisponible = <<"1","0",":","0","0">>

\* The release calls in the order page, context, browser, engine, and the
\* field each one releases.
ReleaseOrder ==
    <<"page.close", "context.close", "browser.close", "playwright.stop">>

ReleasedField ==
    <<"page", "context", "browser", "playwright">>

\* C16: close() releases every handle the client holds and no other, in
\* the order page, context, browser, engine: a release call is made only
\* after the release calls of the held handles earlier in this order.
C16_CloseReleasesInOrder ==
    \A r \in DOMAIN pc :
        (stages[r] # <<>> /\ Last(stages[r]) = "close") =>
            /\ \A i, j \in 1..Len(trace[r]) :
                   i < j => \E a, b \in 1..Len(ReleaseOrder) :
                                /\ a < b
                                /\ trace[r][i] = ReleaseOrder[a]
                                /\ trace[r][j] = ReleaseOrder[b]
            /\ \A a \in 1..Len(ReleaseOrder) :
                   /\ InSeq(ReleaseOrder[a], trace[r]) <=>
                          client[r][ReleasedField[a]] # "none"
                   /\ client[r][ReleasedField[a]] # "open"

\* close() on a client whose start_browser failed at new_context: it holds
\* the engine and the browser only.
C16_Witness ==
    \E r \in DOMAIN pc :
        /\ stages[r] # <<>>
        /\ Last(stages[r]) = "close"
        /\ client[r].page = "none"
        /\ client[r].context = "none"
        /\ trace[r] = <<"browser.close", "playwright.stop">>

\* C17: a request whose identifier has no '-' ends when the credentials are
\* built: no client method runs for it, no handle is opened, and the
\* answer is 500 (422 when the query is invalid as well).
C17_RutWithoutDashOpensNoSession ==
    \A r \in DOMAIN pc :
        ( /\ pc[r] # "new"
          /\ \A i \in 1..Len(query[r].rut) : query[r].rut[i] # "-" ) =>
            /\ pc[r] \in {"handler", "done"}
            /\ stages[r] = <<>>
            /\ trace[r] = <<>>
            /\ client[r] = NewClient
            /\ auth[r] = NoAuth
            /\ Done(r) => response[r].status \in {422, 500}
            /\ (Done(r) /\ ListedProcedure(query[r].procedure_id)
                        /\ query[r].region_id = Given(<<"1","3">>)) =>
                   response[r].status = 500

C17_Witness ==
    \E r \in DOMAIN pc :
        /\ Done(r)
        /\ query[r].rut = <<"1","9">>
        /\ ListedProcedure(query[r].procedure_id)
        /\ response[r].status = 500
        /\ stages[r] = <<>>

\* The stages of a request in pipeline order. get_slots_by_region is the
\* method that runs the two selections and the extraction.
StageOrder ==
    << "start_browser", "login", "get_slots_by_region", "select_procedure",
       "select_region", "extract", "sort_slots_by_datetime", "close" >>

StageRank(st) == CHOOSE k \in 1..Len(StageOrder) : StageOrder[k] = st

AllOpen(c) ==
    /\ c.playwright = "open"
    /\ c.browser = "open"
    /\ c.context = "open"
    /\ c.page = "open"

\* C18: the stages of a request start in pipeline order, each at most once;
\* a stage other than close starts right after the stage before it in the
\* order, and only when that stage succeeded; nothing starts after close.
C18_StagesRunInOrder ==
    \A r \in DOMAIN pc :
        LET st == stages[r]
        IN  /\ \A i \in 1..Len(st) : InSeq(st[i], StageOrder)
            /\ \A i, j \in 1..Len(st) :
                   i < j => StageRank(st[i]) < StageRank(st[j])
            /\ \A i \in 1..Len(st) :
                   st[i] # "close" =>
                       /\ StageRank(st[i]) = i
                       /\ i > 1 => st[i - 1] = StageOrder[i - 1]
            /\ (InSeq("login", st) /\ ~InSeq("close", st)) =>
                   AllOpen(client[r])
            /\ InSeq("get_slots_by_region", st) =>
                   /\ auth[r].ret
                   /\ client[r].is_authenticated
            /\ InSeq("select_region", st) => failed[r] # "select_procedure"
            /\ InSeq("extract", st) =>
                   failed[r] \notin {"select_procedure", "select_region"}
            /\ InSeq("sort_slots_by_datetime", st) =>
                   /\ failed[r] = ""
                   /\ raw_slots[r] # <<>>
            /\ InSeq("close", st) => /\ Last(st) = "close"
                                     /\ Done(r)

\* A request that went through every stage.
C18_Witness ==
    \E r \in DOMAIN pc :
        /\ Done(r)
        /\ stages[r] = StageOrder
        /\ response[r].status = 200

\* The calls of a trace that start a strategy of select_procedure.
Attempts(tr) ==
    PickInOrder(tr, {i \in 1..Len(tr) : StrategyKind(tr[i]) # "none"})

Kinds(calls) == [i \in 1..Len(calls) |-> StrategyKind(calls[i])]

\* After the call that clicked, select_procedure only waits for the page.
OnlyWaitsAfter(tr, call) ==
    \A i, j \in 1..Len(tr) :
        (tr[i] = call /\ i < j) => tr[j] = "page.wait_for_load_state"

ClickWins(r) ==
    /\ Len(clicked[r]) <= 1
    /\ clicked[r] # <<>> =>
           /\ InSeq(clicked[r][1], trace[r])
           /\ OnlyWaitsAfter(trace[r], clicked[r][1])

ClaimedRank(kind) ==
    CASE kind = "exact" -> 1
      [] kind = "substring" -> 2
      [] kind = "first_word" -> 3

\* C19 as stated: the strategies are tried in the order exact match,
\* substring match, first-word match; the first that clicks ends the
\* search, and at most one click is made.
C19_ExactThenSubstringThenFirstWord ==
    \A r \in DOMAIN pc :
        (stages[r] # <<>> /\ Last(stages[r]) = "select_procedure") =>
            LET kinds == Kinds(Attempts(trace[r]))
            IN  /\ \A i, j \in 1..Len(kinds) :
                       i < j => ClaimedRank(kinds[i]) <= ClaimedRank(kinds[j])
                /\ ClickWins(r)

\* C19 as amended: the strategies are tried in the order substring match
\* on buttons, exact match on any element, exact match on buttons,
\* first-word match on button.btn elements; the first that clicks ends the
\* search, and at most one click is made.
C19_SubstringThenExactThenFirstWord ==
    \A r \in DOMAIN pc :
        (stages[r] # <<>> /\ Last(stages[r]) = "select_procedure") =>
            LET att == Attempts(trace[r])
            IN  /\ Len(att) <= 4
                /\ att = SubSeq(<< "page.click(button:has-text)",
                                   "page.click(text=)",
                                   "page.click(button:text-is)",
                                   "page.query_selector_all" >>, 1, Len(att))
                /\ Kinds(att) = SubSeq(<< "substring", "exact", "exact",
                                          "first_word" >>, 1, Len(att))
                /\ ClickWins(r)
                /\ clicked[r] # <<>> =>
                       \/ clicked[r][1] = att[Len(att)]
                       \/ /\ clicked[r][1] = "btn.click"
                          /\ Len(att) = 4

\* The substring selector finds no button, the exact selector clicks.
C19_Witness ==
    \E r \in DOMAIN pc :
        /\ stages[r] # <<>>
        /\ Last(stages[r]) = "select_procedure"
        /\ clicked[r] = <<"page.click(text=)">>
        /\ trace[r] = << "page.click(button:has-text)", "page.click(text=)",
                         "page.wait_for_load_state" >>

----------------------------------------------------------------------------
(* login and the exceptions of its try block                               *)

StartCalls == {StartSteps[i] : i \in 1..Len(StartSteps)}

LoginCalls == {LoginSteps[i] : i \in 1..Len(LoginSteps)}

\* C21: when a call of login's try block (navigation, wait for the form,
\* fills, submit, wait for idle, reading the title) raises, login returns
\* False to its caller and the authenticated flag is what it was before the
\* call; login raises only when a step of start_browser raised, before any
\* call of the try block was made.
C21_LoginCatchesPageErrors ==
    [][\A r \in Sessions :
          (pc[r] = "api" /\ pc'[r] = "returned" /\ stages'[r] = <<"login">>)
          => /\ auth'[r].exc \in LoginCalls
                => /\ pending'[r] = Returns("login", "False", <<>>)
                   /\ client'[r].is_authenticated = client[r].is_authenticated
             /\ pending'[r].kind = "raise"
                => /\ auth'[r].exc \in StartCalls
                   /\ \A i \in 1..Len(trace'[r]) : trace'[r][i] \in StartCalls
                   /\ client'[r].is_authenticated = client[r].is_authenticated
    ]_vars

\* An authenticated session whose later login met an exception while it
\* waited for the page to settle: False came back, the flag is still set.
C21_Witness ==
    \E r \in Sessions :
        /\ stages[r] = <<"login">>
        /\ auth[r].exc = "page.wait_for_load_state"
        /\ pending[r] = Returns("login", "False", <<>>)
        /\ client[r].is_authenticated

----------------------------------------------------------------------------
(* select_region: the order of its calls                                   *)

QueryCall(i) == "page.query_selector(" \o RegionSelectors[i] \o ")"

SelectCall(i) == "page.select_option(" \o RegionSelectors[i] \o ")"

QueryCalls == {QueryCall(i) : i \in 1..Len(RegionSelectors)}

SelectCalls == {SelectCall(i) : i \in 1..Len(RegionSelectors)}

\* The positions of t that hold a call of the set S.
PositionsOf(t, S) == {i \in 1..Len(t) : t[i] \in S}

\* A direct call of select_region has returned to the caller of session r.
RegionCallOver(r) == pc[r] = "returned" /\ stages[r] = <<"select_region">>

\* What holds of every call of select_region: the patterns are queried in
\* the listed order, from the first one on, a selection is attempted only
\* on the pattern just queried, the wait for network idle comes right
\* after a selection and ends the calls, True is returned only after that
\* wait, and a call where no pattern found a control queried every pattern
\* and returned False; the call never raises.
RegionCallShape(r) ==
    LET t == trace[r]
        n == Cardinality(PositionsOf(t, QueryCalls))
    IN  /\ pending[r].kind = "return"
        /\ n <= Len(RegionSelectors)
        /\ \A k \in 1..n :
              \E i \in PositionsOf(t, QueryCalls) :
                  /\ t[i] = QueryCall(k)
                  /\ Cardinality({j \in PositionsOf(t, QueryCalls) : j <= i}) = k
        /\ \A i \in PositionsOf(t, SelectCalls) :
              /\ i > 1
              /\ \E k \in 1..Len(RegionSelectors) :
                    t[i - 1] = QueryCall(k) /\ t[i] = SelectCall(k)
        /\ \A i \in 1..Len(t) :
              t[i] = "page.wait_for_load_state"
              => i = Len(t) /\ i > 1 /\ t[i - 1] \in SelectCalls
        /\ pending[r].ret = "True"
           => t # <<>> /\ Last(t) = "page.wait_for_load_state"
        /\ PositionsOf(t, SelectCalls) = {}
           => /\ pending[r] = Returns("select_region", "False", <<>>)
              /\ n = Len(RegionSelectors)

\* C22 as stated: the first pattern that finds a control ends the search,
\* no later pattern is queried after a selection was attempted.
C22_FirstPresentControlEndsSearch ==
    \A r \in Sessions :
        RegionCallOver(r)
        => /\ RegionCallShape(r)
           /\ \A i \in PositionsOf(trace[r], SelectCalls) :
                 \A j \in PositionsOf(trace[r], QueryCalls) : j < i

\* C22: select_region queries its patterns in the listed order; the first
\* pattern whose control is present and whose selection returns ends the
\* search, and a pattern whose selection raised is followed by the next
\* pattern; True is returned only after the selection and the wait for
\* network idle, False without raising when no pattern found a control.
C22_FirstSelectionThatReturnsEndsSearch ==
    \A r \in Sessions :
        RegionCallOver(r)
        => /\ RegionCallShape(r)
           /\ \A i \in PositionsOf(trace[r], SelectCalls) :
                 \/ i = Len(trace[r])
                 \/ trace[r][i + 1] = "page.wait_for_load_state"
                 \/ /\ trace[r][i + 1] \in QueryCalls
                    /\ \E k \in 1..(Len(RegionSelectors) - 1) :
                          /\ trace[r][i] = SelectCall(k)
                          /\ trace[r][i + 1] = QueryCall(k + 1)

\* The selection on the first pattern raised, the second pattern found no
\* control, the selection on the third returned, and True came back.
C22_Witness ==
    \E r \in Sessions :
        /\ RegionCallOver(r)
        /\ pending[r].ret = "True"
        /\ trace[r] = << QueryCall(1), SelectCall(1), QueryCall(2),
                         QueryCall(3), SelectCall(3),
                         "page.wait_for_load_state" >>

----------------------------------------------------------------------------
(* The authenticated flag over the life of a client object                 *)

\* The page after the submission is the success page.
ShowsSuccess(current_url, title) ==
    \/ Contains(ToLower(current_url), Seleccion)
    \/ Contains(title, ReservaDeHora)

\* The step is a direct call of login on session r.
LoginCall(r) ==
    pc[r] = "api" /\ pc'[r] = "returned" /\ stages'[r] = <<"login">>

\* C25: the flag of a client object is false until the first call, it
\* becomes true only in a login call that read the success page after the
\* submission and returned True, every login call that returns True sets
\* it, a login call that reads the success page returns True, and once
\* true the flag stays true through every later call: a login that returns
\* False, a selection, an extraction, close.
C25_FlagSetOnlyBySuccessfulLogin ==
    [][\A r \in Sessions :
          /\ ncalls[r] = 0 => ~client[r].is_authenticated
          /\ client[r].is_authenticated => client'[r].is_authenticated
          /\ (~client[r].is_authenticated /\ client'[r].is_authenticated)
             => /\ LoginCall(r)
                /\ pending'[r] = Returns("login", "True", <<>>)
          /\ LoginCall(r)
             => /\ pending'[r].ret = "True"
                   <=> /\ auth'[r].exc = "none"
                       /\ auth'[r].outcome # "Blocked"
                       /\ ShowsSuccess(auth'[r].current_url, auth'[r].title2)
                /\ pending'[r].ret = "True" => client'[r].is_authenticated
    ]_vars

\* A session that logged in and was then closed: the page is closed and
\* the flag is still set.
C25_Witness ==
    \E r \in Sessions :
        /\ pc[r] = "returned"
        /\ stages[r] = <<"close">>
        /\ client[r].page = "closed"
        /\ client[r].is_authenticated

----------------------------------------------------------------------------
(* Requests in flight at once                                              *)

\* Everything request r holds: its position, its client object, its
\* pending result and its response.
Owned(r) ==
    << pc[r], query[r], client[r], scraped[r], raw_slots[r], pending[r],
       response[r], auth[r], failed[r], stages[r], trace[r], clicked[r] >>

HasClosedHandle(c) ==
    \/ c.playwright = "closed"
    \/ c.browser = "closed"
    \/ c.context = "closed"
    \/ c.page = "closed"

\* A client object is touched only by the request that holds it: it is
\* as built until its request reached line 60, and it has a closed handle
\* only when its request ran close.
OnlyOwnSession ==
    \A r \in Pair :
        /\ pc[r] \in {"new", "handler"} => client[r] = NewClient
        /\ HasClosedHandle(client[r]) => InSeq("close", stages[r])
        /\ client[r].is_authenticated => auth[r].ret

\* C23: in every interleaving of two requests, a step changes what one
\* request holds (its client object with the four handles and the flag,
\* its login outcome, its pending result, its response) and leaves
\* everything the other request holds as it was; a client object is
\* authenticated only by the login of its own request and closed only by
\* the close of its own request.
C23_RequestsDoNotInterfere ==
    [][/\ \E r \in Pair : \A o \in Pair \ {r} : Owned(o)' = Owned(o)
       /\ OnlyOwnSession
       /\ OnlyOwnSession'
    ]_vars

\* One request failed its login, got 503 and closed its session while the
\* other, authenticated, is about to run the extraction on its open page.
C23_Witness ==
    \E r \in Pair, o \in Pair :
        /\ r # o
        /\ pc[r] = "gsr_fetch"
        /\ client[r].is_authenticated
        /\ client[r].page = "open"
        /\ pc[o] = "done"
        /\ response[o].status = 503
        /\ client[o].page = "closed"
        /\ ~client[o].is_authenticated

----------------------------------------------------------------------------
(* Termination                                                             *)

\* C24: every request whose session was opened eventually returns to its
\* caller with the session closed, whatever the page does.
C24_OpenedSessionIsEventuallyClosed ==
    \A r \in Pair :
        (pc[r] = "login") ~> (pc[r] = "done" /\ client[SessionOf(r)].page = "closed")

====
